---- MODULE Spec2Model ----
(***************************************************************************)
(* Model of the dependency-graph construction and change-impact            *)
(* propagation engine (analyzer/vcs_scanner.py, analyzer/graph_builder.py).*)
(*                                                                         *)
(* Python str values are sequences of one-character strings; a dict is a   *)
(* sequence of keys (its insertion order) with a function for the values;  *)
(* a networkx DiGraph is a record of its node list, node attributes,       *)
(* successor lists (insertion order) and edge attributes.                  *)
(***************************************************************************)
EXTENDS Integers, Sequences, FiniteSets, TLC

VARIABLES
    pc,            \* position of the analysis run
    repo,          \* directory entries of the base directory: name -> directory record
    cwd,           \* os.getcwd() of the process
    disk,          \* content of the files a changed-file path can name: full path -> text
    services,      \* discover_microservices result: [keys, files]
    svc_graph,     \* build_service_dependency_graph result: [keys, files, deps, contracts]
    G,             \* the networkx graph
    G0,            \* the graph as it was before the last enrichment pass
    changed_files, \* the changed-file list
    impacted,      \* first component of impacted_services_from_files' result
    edges,         \* second component of impacted_services_from_files' result
    run2,          \* the locals of a second analysis run of the same process
    llm,           \* the language-model client of the process and what its call does
    report,        \* the text returned to the caller (run_analysis, analyze)
    failing        \* the metric computations of networkx that raise in this process:
                   \* those of the whole graph, and the nodes nx.descendants raises on

vars == <<pc, repo, cwd, disk, services, svc_graph, G, G0, changed_files, impacted, edges,
          run2, llm, report, failing>>

----------------------------------------------------------------------------
(* Bounds of the model *)

MaxFilesTotal == 2      \* source files written into the repository
MaxChanged == 2         \* length of the changed-file list

----------------------------------------------------------------------------
(* Python str operations *)

\* ord(c) for the characters the model uses
Ord(c) ==
    CASE c = "-" -> 45 [] c = "." -> 46 [] c = "/" -> 47 [] c = "@" -> 64
      [] c = "\\" -> 92 [] c = "_" -> 95
      [] c = "a" -> 97 [] c = "b" -> 98 [] c = "c" -> 99 [] c = "d" -> 100
      [] c = "f" -> 102 [] c = "i" -> 105 [] c = "l" -> 108 [] c = "n" -> 110
      [] c = "o" -> 111 [] c = "p" -> 112 [] c = "s" -> 115 [] c = "u" -> 117
      [] c = "v" -> 118 [] c = "w" -> 119 [] c = "x" -> 120 [] c = "y" -> 121
      [] c = "z" -> 122 [] c = " " -> 32
      [] c = "e" -> 101 [] c = "g" -> 103 [] c = "h" -> 104 [] c = "j" -> 106
      [] c = "k" -> 107 [] c = "m" -> 109 [] c = "q" -> 113 [] c = "r" -> 114
      [] c = "t" -> 116
      [] c = "P" -> 80 [] c = "R" -> 82 [] c = "T" -> 84 [] c = "Z" -> 90
      [] c = "0" -> 48 [] c = "1" -> 49 [] c = "2" -> 50 [] c = "3" -> 51
      [] c = "4" -> 52 [] c = "5" -> 53 [] c = "6" -> 54 [] c = "7" -> 55
      [] c = "8" -> 56 [] c = "9" -> 57
      [] c = "\n" -> 10 [] c = "\"" -> 34 [] c = "(" -> 40 [] c = ")" -> 41
      [] c = "," -> 44 [] c = ":" -> 58 [] c = "[" -> 91 [] c = "]" -> 93
      [] c = "{" -> 123 [] c = "}" -> 125
      [] OTHER -> 0

\* str < str: code-point lexicographic order
RECURSIVE StrLess(_, _)
StrLess(s, t) ==
    IF t = <<>> THEN FALSE
    ELSE IF s = <<>> THEN TRUE
    ELSE IF Ord(Head(s)) < Ord(Head(t)) THEN TRUE
    ELSE IF Ord(Head(s)) > Ord(Head(t)) THEN FALSE
    ELSE StrLess(Tail(s), Tail(t))

\* s.endswith(p)
EndsWith(s, p) ==
    /\ Len(p) <= Len(s)
    /\ SubSeq(s, Len(s) - Len(p) + 1, Len(s)) = p

\* s.startswith(p)
StartsWith(s, p) ==
    /\ Len(p) <= Len(s)
    /\ SubSeq(s, 1, Len(p)) = p

\* sub in s
Contains(s, sub) ==
    \E i \in 1..(Len(s) - Len(sub) + 1) : SubSeq(s, i, i + Len(sub) - 1) = sub

\* s.replace("\\", "/")
ReplaceBackslash(s) == [i \in 1..Len(s) |-> IF s[i] = "\\" THEN "/" ELSE s[i]]

\* s.lstrip(chars)
RECURSIVE LStrip(_, _)
LStrip(s, chars) ==
    IF s # <<>> /\ Head(s) \in chars THEN LStrip(Tail(s), chars) ELSE s

\* s.rstrip(chars)
RECURSIVE RStrip(_, _)
RStrip(s, chars) ==
    IF s # <<>> /\ s[Len(s)] \in chars THEN RStrip(SubSeq(s, 1, Len(s) - 1), chars) ELSE s

\* the pieces of s between the separator characters, in order (empty pieces included)
RECURSIVE SplitOn(_, _, _)
SplitOn(s, seps, cur) ==
    IF s = <<>> THEN <<cur>>
    ELSE IF Head(s) \in seps THEN <<cur>> \o SplitOn(Tail(s), seps, <<>>)
    ELSE SplitOn(Tail(s), seps, Append(cur, Head(s)))

Range(q) == {q[i] : i \in 1..Len(q)}

\* PurePosixPath(rel).parts as a set: the components of rel, with empty and "."
\* components dropped and a leading "/" kept as the root part
PathParts(rel) ==
    (Range(SplitOn(rel, {"/"}, <<>>)) \ {<<>>, <<".">>})
        \cup (IF rel # <<>> /\ Head(rel) = "/" THEN {<<"/">>} ELSE {})

\* \w of the re module for the characters the model uses
IsWordChar(c) ==
    \/ Ord(c) >= 97 /\ Ord(c) <= 122
    \/ Ord(c) >= 65 /\ Ord(c) <= 90
    \/ Ord(c) >= 48 /\ Ord(c) <= 57
    \/ c = "_"

\* re.search(rf"\b{re.escape(word)}\b", text)
WordSearch(word, text) ==
    \E i \in 1..(Len(text) - Len(word) + 1) :
        /\ SubSeq(text, i, i + Len(word) - 1) = word
        /\ LET firstW == IsWordChar(word[1])
               lastW == IsWordChar(word[Len(word)])
               prevW == i > 1 /\ IsWordChar(text[i - 1])
               nextW == i + Len(word) <= Len(text) /\ IsWordChar(text[i + Len(word)])
           IN  firstW # prevW /\ lastW # nextW

\* os.path.isabs(path) on POSIX
IsAbs(path) == path # <<>> /\ Head(path) = "/"

\* os.path.join(a, b) on POSIX, b not empty
PathJoin(a, b) ==
    IF IsAbs(b) THEN b
    ELSE IF a = <<>> \/ a[Len(a)] = "/" THEN a \o b
    ELSE a \o <<"/">> \o b

\* sorted(list(S), reverse=True)
RECURSIVE SortedListReversed(_)
SortedListReversed(S) ==
    IF S = {} THEN <<>>
    ELSE LET m == CHOOSE x \in S : \A y \in S \ {x} : StrLess(y, x)
         IN  <<m>> \o SortedListReversed(S \ {m})

\* sorted(list(S)) for a set S of str
RECURSIVE SortedList(_)
SortedList(S) ==
    IF S = {} THEN <<>>
    ELSE LET m == CHOOSE x \in S : \A y \in S \ {x} : StrLess(x, y)
         IN  <<m>> \o SortedList(S \ {m})

----------------------------------------------------------------------------
(* Names used by the model *)

ui_a == <<"u", "i", "-", "a">>
ui_b == <<"u", "i", "-", "b">>
svc_c == <<"s", "v", "c", "-", "c">>
lib == <<"l", "i", "b">>

\* directory names that can exist directly under the base directory
EntryNames == {ui_a, ui_b, svc_c, lib}

\* dependency tokens a source file can yield
\* ("ui_b" holds identifiers of ui-a and of ui-b; "x" holds the last segment of the
\* manifest name and no other identifier)
tok_ui_b == <<"u", "i", "_", "b">>
tok_x == <<"x">>
Tokens == {tok_ui_b, tok_x}

\* names a pyproject.toml at the service root can declare ("" when there is none)
NoManifest == <<>>
ManifestChoices == {NoManifest, <<"@", "o", "/", "x">>}

\* the empty dict
EmptyDict == [keys |-> <<>>, val |-> <<>>]

\* the contract descriptor files a service directory can hold, in the order os.walk
\* meets them
NoDescriptors == <<>>
ContractChoices == {NoDescriptors}

\* REPOS_BASE_DIR
BaseDir == <<"/", "r">>

\* names of the source files written into a service directory, in the order written
FileNames ==
    << <<"a", ".", "p", "y">>, <<"b", ".", "p", "y">>, <<"c", ".", "p", "y">>,
       <<"d", ".", "p", "y">>, <<"f", ".", "p", "y">> >>

\* the extensions of SOURCE_EXTENSIONS
SOURCE_EXTENSIONS ==
    << <<".", "p", "y">>, <<".", "t", "s">>, <<".", "j", "s">>,
       <<".", "j", "s", "o", "n">>, <<".", "y", "m", "l">>, <<".", "y", "a", "m", "l">>,
       <<".", "h", "t", "m", "l">>, <<".", "j", "s", "x">>, <<".", "t", "s", "x">> >>

SERVICE_PREFIXES ==
    << <<"u", "i", "-">>, <<"c", "r", "u", "d", "-">>,
       <<"d", "o", "m", "a", "i", "n", "-">>, <<"f", "d", "r", "-">>,
       <<"p", "s", "g", "-">>, <<"a", "p", "i", "g", "e", "e", "-">>,
       <<"s", "v", "c", "-">> >>

NoService == <<>>       \* the empty string map_file_to_service returns for "no service"
NoGraph == [nodes |-> <<>>, nattr |-> <<>>, adj |-> <<>>, eattr |-> <<>>]
NoServices == [keys |-> <<>>, files |-> <<>>]
NoRun == <<>>           \* no second run
NoClient == [client |-> FALSE]      \* _openai is None
NoReport == <<>>        \* nothing returned yet
\* every metric computation returns
NoFailure == [metrics |-> {}, descendants |-> {}]

----------------------------------------------------------------------------
(* The repository on disk, as the tests prepare it *)

TotalFiles(r) ==
    LET RECURSIVE Sum(_)
        Sum(D) == IF D = {} THEN 0
                  ELSE LET d == CHOOSE x \in D : TRUE
                       IN  Len(r[d].files) + Sum(D \ {d})
    IN  Sum(DOMAIN r)

\* svc_a.mkdir() (with or without a package manifest in it)
MakeDir ==
    /\ pc = "setup"
    /\ \E name \in EntryNames \ DOMAIN repo, m \in ManifestChoices, c \in ContractChoices :
          /\ repo' = repo @@ (name :> [manifest |-> m, contracts |-> c, files |-> <<>>])
    /\ UNCHANGED <<pc, cwd, disk, services, svc_graph, G, G0, changed_files, impacted, edges, run2, llm, report, failing>>

\* file_a.write_text(...): a readable source file whose content yields the dependency
\* tokens deps
WriteFile ==
    /\ pc = "setup"
    /\ TotalFiles(repo) < MaxFilesTotal
    /\ \E name \in DOMAIN repo \ {lib}, deps \in SUBSET Tokens :
          /\ Len(repo[name].files) < Len(FileNames)
          /\ repo' = [repo EXCEPT ![name].files =
                        Append(@, [path |-> BaseDir \o <<"/">> \o name \o <<"/">>
                                              \o FileNames[Len(@) + 1],
                                   deps |-> deps, readable |-> TRUE, decodable |-> TRUE])]
    /\ UNCHANGED <<pc, cwd, disk, services, svc_graph, G, G0, changed_files, impacted, edges, run2, llm, report, failing>>

----------------------------------------------------------------------------
(* analyzer/vcs_scanner.py *)

\* sorted(os.listdir(base_dir))
SortedEntries(r) == SortedList(DOMAIN r)

\* any(entry.startswith(p) for p in SERVICE_PREFIXES)
HasServicePrefix(entry) ==
    \E i \in 1..Len(SERVICE_PREFIXES) : StartsWith(entry, SERVICE_PREFIXES[i])

\* f.endswith(SOURCE_EXTENSIONS)
HasSourceExtension(f) ==
    \E i \in 1..Len(SOURCE_EXTENSIONS) : EndsWith(f, SOURCE_EXTENSIONS[i])

\* the paths os.walk(full_path) collects: the files of the tree in walk order whose
\* name ends with a source extension
RECURSIVE WalkSourceFiles(_)
WalkSourceFiles(filerecs) ==
    IF filerecs = <<>> THEN <<>>
    ELSE (IF HasSourceExtension(Head(filerecs).path) THEN <<Head(filerecs).path>> ELSE <<>>)
            \o WalkSourceFiles(Tail(filerecs))

\* discover_microservices(base_dir): { service_name: [file_paths...] }
RECURSIVE DiscoverFrom(_, _)
DiscoverFrom(r, entries) ==
    IF entries = <<>> THEN NoServices
    ELSE LET rest == DiscoverFrom(r, Tail(entries))
             e == Head(entries)
         IN  IF HasServicePrefix(e)
             THEN [keys |-> <<e>> \o rest.keys,
                   files |-> (e :> WalkSourceFiles(r[e].files))
                                 @@ rest.files]
             ELSE rest

discover_microservices(r) == DiscoverFrom(r, SortedEntries(r))

\* the directory entry of the repository that a path names, or NoService:
\* a relative path is taken from the working directory
DirEntryAt(r, wd, root) ==
    LET rel == IF StartsWith(root, <<".", "/">>) THEN SubSeq(root, 3, Len(root)) ELSE root
        full == PathJoin(wd, rel)
    IN  IF \E d \in DOMAIN r : full = BaseDir \o <<"/">> \o d
        THEN CHOOSE d \in DOMAIN r : full = BaseDir \o <<"/">> \o d
        ELSE NoService

\* _read_manifest_name(service_root)
read_manifest_name(r, wd, root) ==
    LET d == DirEntryAt(r, wd, root)
    IN  IF d = NoService THEN NoManifest ELSE r[d].manifest

\* fn.lower() for the file names the model uses
Lower(s) ==
    [i \in 1..Len(s) |->
        CASE s[i] = "S" -> "s" [] s[i] = "Y" -> "y" [] s[i] = "M" -> "m"
          [] s[i] = "L" -> "l" [] OTHER -> s[i]]

\* a dict with the keys of ks in order
DictOf(ks, v) == [keys |-> ks, val |-> [k \in Range(ks) |-> v[k]]]

\* _parse_openapi_file(path) for the descriptor file d: d.loads tells which of
\* json.loads and yaml.safe_load accepts the text ("none": neither does, or the
\* text is not JSON and yaml is not installed), d.data is the value loaded
parse_openapi_file(d) ==
    IF ~d.readable \/ d.loads = "none" THEN EmptyDict
    ELSE IF ~d.data.isdict
         THEN DictOf(<<"paths", "info">>, ("paths" :> EmptyDict) @@ ("info" :> EmptyDict))
    ELSE IF d.data.paths.kind = "list" THEN EmptyDict
    ELSE LET P == d.data.paths
         IN  DictOf(<<"paths", "info">>,
                    ("paths" :> [keys |-> P.keys,
                                 val |-> [p \in Range(P.keys) |->
                                            IF P.val[p].isdict THEN P.val[p].keys
                                            ELSE <<>>]])
                      @@ ("info" :> d.data.info))

\* the loop of _parse_proto_file over the lines of the file: svc is the dict built,
\* cur the last service name (bound tells whether cur was assigned); the result
\* is [raised |-> TRUE] when an rpc line is met while cur is unbound
RECURSIVE ProtoLines(_, _, _, _)
ProtoLines(lines, svc, bound, cur) ==
    IF lines = <<>> THEN [raised |-> FALSE, svc |-> svc]
    ELSE LET l == Head(lines)
         IN  IF l.kind = "service"
             THEN ProtoLines(Tail(lines),
                             IF l.name \in Range(svc.keys) THEN svc
                             ELSE [keys |-> Append(svc.keys, l.name),
                                   val |-> (l.name :> <<>>) @@ svc.val],
                             TRUE, l.name)
             ELSE IF l.kind = "rpc"
             THEN IF ~bound THEN [raised |-> TRUE, svc |-> svc]
                  ELSE ProtoLines(Tail(lines),
                                  [svc EXCEPT !.val[cur] = Append(@, l.name)], bound, cur)
             ELSE ProtoLines(Tail(lines), svc, bound, cur)

\* _parse_proto_file(path)
parse_proto_file(d) ==
    IF ~d.readable THEN EmptyDict
    ELSE LET res == ProtoLines(d.lines, EmptyDict, FALSE, "")
         IN  IF res.raised THEN EmptyDict
             ELSE DictOf(<<"services">>, ("services" :> res.svc))

\* os.path.relpath(path, service_root) of the descriptor file d
RelPath(d) == IF d.dir = <<>> THEN d.name ELSE d.dir \o <<"/">> \o d.name

\* contracts.setdefault(kind, []).append({'path': ..., 'contract': c})
AppendContract(contracts, kind, d, c) ==
    LET entry == [path |-> RelPath(d), contract |-> c]
    IN  IF kind \in Range(contracts.keys)
        THEN [contracts EXCEPT !.val[kind] = Append(@, entry)]
        ELSE [keys |-> Append(contracts.keys, kind),
              val |-> (kind :> <<entry>>) @@ contracts.val]

\* fnl.endswith(('.yaml', '.yml', '.json')) and ('openapi' in fnl or 'swagger' in fnl)
IsApiDescriptorName(fnl) ==
    /\ \/ EndsWith(fnl, <<".", "y", "a", "m", "l">>)
       \/ EndsWith(fnl, <<".", "y", "m", "l">>)
       \/ EndsWith(fnl, <<".", "j", "s", "o", "n">>)
    /\ \/ Contains(fnl, <<"o", "p", "e", "n", "a", "p", "i">>)
       \/ Contains(fnl, <<"s", "w", "a", "g", "g", "e", "r">>)

\* a loop body that records a descriptor whether or not its parser returned a summary
ContractStepKeepingEmpty(contracts, d) ==
    LET fnl == Lower(d.name)
    IN  IF IsApiDescriptorName(fnl)
        THEN AppendContract(contracts, "openapi", d, parse_openapi_file(d))
        ELSE IF EndsWith(fnl, <<".", "p", "r", "o", "t", "o">>)
        THEN AppendContract(contracts, "proto", d, parse_proto_file(d))
        ELSE contracts

\* the body of the loop of _discover_service_contracts for the file d
ContractStep(contracts, d) ==
    LET fnl == Lower(d.name)
    IN  IF IsApiDescriptorName(fnl)
        THEN LET c == parse_openapi_file(d)
             IN  IF c # EmptyDict THEN AppendContract(contracts, "openapi", d, c)
                 ELSE contracts
        ELSE IF EndsWith(fnl, <<".", "p", "r", "o", "t", "o">>)
        THEN LET c == parse_proto_file(d)
             IN  IF c # EmptyDict THEN AppendContract(contracts, "proto", d, c)
                 ELSE contracts
        ELSE contracts

\* the loop of _discover_service_contracts over the files os.walk meets
RECURSIVE ContractsFrom(_, _)
ContractsFrom(contracts, descs) ==
    IF descs = <<>> THEN contracts
    ELSE ContractsFrom(ContractStep(contracts, Head(descs)), Tail(descs))

\* _discover_service_contracts(service_root): nothing is found when service_root
\* is no directory
discover_service_contracts(r, wd, root) ==
    LET d == DirEntryAt(r, wd, root)
    IN  IF d = NoService THEN EmptyDict ELSE ContractsFrom(EmptyDict, r[d].contracts)

\* the text before the first occurrence of sub in s: s.split(sub, 1)[0]
BeforeFirst(s, sub) ==
    LET i == CHOOSE j \in 1..(Len(s) - Len(sub) + 1) :
                /\ SubSeq(s, j, j + Len(sub) - 1) = sub
                /\ \A k \in 1..(j - 1) : SubSeq(s, k, k + Len(sub) - 1) # sub
    IN  SubSeq(s, 1, i - 1)

\* the service root _build_service_identifiers derives for svc
IdentifierRoot(base_dir, svc, files) ==
    LET hits == {i \in 1..Len(files) :
                    Contains(ReplaceBackslash(files[i]), <<"/">> \o svc \o <<"/">>)}
    IN  IF hits # {}
        THEN LET i == CHOOSE j \in hits : \A k \in hits : j <= k
             IN  BeforeFirst(ReplaceBackslash(files[i]), <<"/">> \o svc \o <<"/">>)
                     \o <<"/">> \o svc
        ELSE PathJoin(IF base_dir = <<>> THEN <<".">> ELSE base_dir, svc)

\* the identifier set _build_service_identifiers builds for svc
ServiceIdentifiers(r, wd, base_dir, svc, files) ==
    LET manifest_name == read_manifest_name(r, wd, IdentifierRoot(base_dir, svc, files))
    IN  {svc}
          \cup (Range(SplitOn(svc, {"-", "_", "."}, <<>>)) \ {<<>>})
          \cup (IF manifest_name # NoManifest
                THEN {manifest_name}
                       \cup (IF Contains(manifest_name, <<"/">>)
                             THEN LET segs == SplitOn(manifest_name, {"/"}, <<>>)
                                  IN  {segs[Len(segs)]}
                             ELSE {})
                ELSE {})

\* _build_service_identifiers(base_dir, services)
build_service_identifiers(r, wd, base_dir, svcs) ==
    [s \in Range(svcs.keys) |-> ServiceIdentifiers(r, wd, base_dir, s, svcs.files[s])]

\* the base directory build_service_dependency_graph infers: os.path.commonpath of
\* "." and the files of the first service that has files ("." when it raises)
InferredBaseDir(svcs) ==
    LET withFiles == {i \in 1..Len(svcs.keys) : svcs.files[svcs.keys[i]] # <<>>}
    IN  IF withFiles = {} THEN <<".">>
        ELSE LET i == CHOOSE j \in withFiles : \A k \in withFiles : j <= k
                 files == svcs.files[svcs.keys[i]]
             IN  IF \E j \in 1..Len(files) : IsAbs(files[j]) THEN <<".">> ELSE <<>>

\* the permutations of a finite set, as sequences: the orders list(deps) can have
RECURSIVE Perms(_)
Perms(S) ==
    IF S = {} THEN {<<>>}
    ELSE UNION {{<<x>> \o q : q \in Perms(S \ {x})} : x \in S}

\* the dependency tokens the scan takes from the file fp: read_file_content gives ""
\* for a file that cannot be opened or read, and a file without content is skipped;
\* otherwise extract_dependencies(content, filename=fp), where content is the text
\* open(path, "r", encoding="utf-8", errors="ignore") gives: bytes that are not valid
\* UTF-8 are dropped and the rest of the file is kept, so that a file record's deps
\* are the tokens of the text that remains
FileDeps(r, fp) ==
    UNION {f.deps : f \in {x \in UNION {Range(r[d].files) : d \in DOMAIN r} :
                                x.path = fp /\ x.readable}}

\* the sequences of dependency tokens one service's scan can meet: its files in
\* order, each file's tokens (extract_dependencies returns list(set)) in any order
RECURSIVE TokenSeqs(_, _)
TokenSeqs(r, files) ==
    IF files = <<>> THEN {<<>>}
    ELSE {p \o rest : p \in Perms(FileDeps(r, Head(files))),
                      rest \in TokenSeqs(r, Tail(files))}

\* a matching loop without the test target == svc
FirstMatchNoSelfSkip(svc, dep, keys, id_map) ==
    LET hits == {i \in 1..Len(keys) :
                    \E ident \in id_map[keys[i]] : ident # <<>> /\ Contains(dep, ident)}
    IN  IF hits = {} THEN NoService
        ELSE keys[CHOOSE i \in hits : \A j \in hits : i <= j]

\* the first service in id_map's iteration order, other than svc, one of whose
\* identifiers occurs in dep; NoService when there is none
FirstMatch(svc, dep, keys, id_map) ==
    LET hits == {i \in 1..Len(keys) :
                    /\ keys[i] # svc
                    /\ \E ident \in id_map[keys[i]] : ident # <<>> /\ Contains(dep, ident)}
    IN  IF hits = {} THEN NoService
        ELSE keys[CHOOSE i \in hits : \A j \in hits : i <= j]

\* a count that records a matched target once, however many tokens match it
IncrementDepOnce(deps, target) ==
    IF target \in Range(deps.keys) THEN deps
    ELSE [keys |-> Append(deps.keys, target), val |-> deps.val @@ (target :> 1)]

\* graph[svc]["deps"].setdefault(target, 0); graph[svc]["deps"][target] += 1
IncrementDep(deps, target) ==
    IF target \in Range(deps.keys)
    THEN [deps EXCEPT !.val[target] = @ + 1]
    ELSE [keys |-> Append(deps.keys, target), val |-> deps.val @@ (target :> 1)]

\* a scan that counts every token for each service other than svc that it matches
ScanTokensEveryMatch(svc, toks, keys, id_map, deps) ==
    LET Hits(B) == {i \in 1..Len(toks) :
                      /\ B # svc
                      /\ \E ident \in id_map[B] : ident # <<>> /\ Contains(toks[i], ident)}
        IsHit(B) == Hits(B) # {}
    IN  [keys |-> SelectSeq(keys, IsHit),
         val |-> [B \in {k \in Range(keys) : IsHit(k)} |-> Cardinality(Hits(B))]]

\* the deps dict of svc after its tokens toks were matched in order
RECURSIVE ScanTokens(_, _, _, _, _)
ScanTokens(svc, toks, keys, id_map, deps) ==
    IF toks = <<>> THEN deps
    ELSE LET target == FirstMatch(svc, Head(toks), keys, id_map)
         IN  ScanTokens(svc, Tail(toks), keys, id_map,
                        IF target = NoService THEN deps ELSE IncrementDep(deps, target))

\* the results build_service_dependency_graph(services) can return:
\* { svc: { "files": [...], "deps": {other_svc: count}, "contracts": {...} } }
RECURSIVE ServiceGraphsFrom(_, _, _, _, _)
ServiceGraphsFrom(r, wd, svcs, id_map, i) ==
    IF i > Len(svcs.keys) THEN {<<>>}
    ELSE LET svc == svcs.keys[i]
             base_dir == InferredBaseDir(svcs)
             contracts == discover_service_contracts(r, wd, PathJoin(base_dir, svc))
         IN  {(svc :> [files |-> svcs.files[svc],
                       deps |-> ScanTokens(svc, toks, svcs.keys, id_map, EmptyDict),
                       contracts |-> contracts]) @@ rest :
                 toks \in TokenSeqs(r, svcs.files[svc]),
                 rest \in ServiceGraphsFrom(r, wd, svcs, id_map, i + 1)}

build_service_dependency_graph(r, wd, svcs) ==
    LET id_map == build_service_identifiers(r, wd, InferredBaseDir(svcs), svcs)
    IN  {[keys |-> svcs.keys, val |-> g] : g \in ServiceGraphsFrom(r, wd, svcs, id_map, 1)}

\* read_file_content(full) for a path a changed file can name: "" when the file
\* does not exist or cannot be read
read_file_content(dsk, full) == IF full \in DOMAIN dsk THEN dsk[full] ELSE <<>>

\* the first service in iteration order that is in the set S, or NoService
FirstKey(keys, S) ==
    LET hits == {i \in 1..Len(keys) : keys[i] \in S}
    IN  IF hits = {} THEN NoService
        ELSE keys[CHOOSE i \in hits : \A j \in hits : i <= j]

\* rel in map_file_to_service: the normalized path made relative to base_dir
RelativePath(base_dir, path) ==
    LET p == ReplaceBackslash(path)
        base == ReplaceBackslash(IF base_dir = <<>> THEN <<".">> ELSE base_dir)
    IN  IF StartsWith(p, base)
        THEN LStrip(LStrip(SubSeq(p, Len(base) + 1, Len(p)), {"/"}), {".", "/"})
        ELSE LStrip(p, {".", "/"})

\* the service with the longest svc + "/" prefix of rel (the first such in iteration
\* order among equals), or NoService
LongestPrefixService(rel, keys) ==
    LET Prefix(svc) == RStrip(svc, {"/"}) \o <<"/">>
        hits == {i \in 1..Len(keys) : StartsWith(rel, Prefix(keys[i]))}
    IN  IF hits = {} THEN NoService
        ELSE keys[CHOOSE i \in hits :
                    \A j \in hits :
                        \/ Len(Prefix(keys[i])) > Len(Prefix(keys[j]))
                        \/ Len(Prefix(keys[i])) = Len(Prefix(keys[j])) /\ i <= j]

\* a map_file_to_service that looks at the path parts before the directory prefixes
map_file_to_service_parts_first(dsk, base_dir, path, keys) ==
    IF path = <<>> THEN NoService
    ELSE LET rel == RelativePath(base_dir, path)
             best == LongestPrefixService(rel, keys)
             byPart == FirstKey(keys, {svc \in Range(keys) : svc \in PathParts(rel)})
             full == IF IsAbs(path) THEN path
                     ELSE PathJoin(IF base_dir = <<>> THEN <<".">> ELSE base_dir, path)
             content == read_file_content(dsk, full)
             byContent == FirstKey(keys, {svc \in Range(keys) : WordSearch(svc, content)})
         IN  IF byPart # NoService THEN byPart
             ELSE IF best # NoService THEN best
             ELSE IF content # <<>> THEN byContent
             ELSE NoService

\* map_file_to_service(base_dir, path, services)
map_file_to_service(dsk, base_dir, path, keys) ==
    IF path = <<>> THEN NoService
    ELSE LET rel == RelativePath(base_dir, path)
             best == LongestPrefixService(rel, keys)
             byPart == FirstKey(keys, {svc \in Range(keys) : svc \in PathParts(rel)})
             full == IF IsAbs(path) THEN path
                     ELSE PathJoin(IF base_dir = <<>> THEN <<".">> ELSE base_dir, path)
             content == read_file_content(dsk, full)
             byContent == FirstKey(keys, {svc \in Range(keys) : WordSearch(svc, content)})
         IN  IF best # NoService THEN best
             ELSE IF byPart # NoService THEN byPart
             ELSE IF content # <<>> THEN byContent
             ELSE NoService

----------------------------------------------------------------------------
(* networkx.DiGraph *)

\* n in G
HasNode(g, n) == n \in Range(g.nodes)

\* G.has_edge(u, v)
HasEdge(g, u, v) == <<u, v>> \in DOMAIN g.eattr

NodeSet(g) == Range(g.nodes)
EdgeSet(g) == DOMAIN g.eattr

\* G.add_node(n, **attr)
add_node(g, n, attr) ==
    IF HasNode(g, n)
    THEN [g EXCEPT !.nattr[n] = attr @@ @]
    ELSE [nodes |-> Append(g.nodes, n),
          nattr |-> g.nattr @@ (n :> attr),
          adj |-> g.adj @@ (n :> <<>>),
          eattr |-> g.eattr]

\* G.add_edge(u, v, **attr)
add_edge(g, u, v, attr) ==
    LET g1 == IF HasNode(g, u) THEN g ELSE add_node(g, u, <<>>)
        g2 == IF HasNode(g1, v) THEN g1 ELSE add_node(g1, v, <<>>)
    IN  IF HasEdge(g2, u, v)
        THEN [g2 EXCEPT !.eattr[<<u, v>>] = attr @@ @]
        ELSE [g2 EXCEPT !.adj[u] = Append(@, v),
                        !.eattr = @ @@ (<<u, v>> :> attr)]

\* the nodes reachable from n in zero or more steps, by the traversal networkx
\* uses for nx.descendants: a worklist over the successor lists
RECURSIVE Closure(_, _, _)
Closure(g, frontier, seen) ==
    IF frontier = {} THEN seen
    ELSE LET next == {v \in NodeSet(g) : \E u \in frontier : HasEdge(g, u, v)} \ seen
         IN  Closure(g, next, seen \cup next)

\* the nodes reachable from n with n itself counted
descendants_with_self(g, n) == Closure(g, {n}, {n})

\* nx.descendants(G, n)
descendants(g, n) == Closure(g, {n}, {n}) \ {n}

\* the strongly connected component of n
SccOf(g, n) == {m \in Closure(g, {n}, {n}) : n \in Closure(g, {m}, {m})}

\* nx.bfs_edges(G, s): the tree edges of a breadth-first search from s, in the
\* order found; the successors of a node are taken in insertion order
RECURSIVE BfsChildren(_, _, _, _, _)
BfsChildren(parent, children, visited, queue, out) ==
    IF children = <<>> THEN [visited |-> visited, queue |-> queue, out |-> out]
    ELSE LET child == Head(children)
         IN  IF child \in visited
             THEN BfsChildren(parent, Tail(children), visited, queue, out)
             ELSE BfsChildren(parent, Tail(children), visited \cup {child},
                              Append(queue, child), Append(out, <<parent, child>>))

RECURSIVE BfsLoop(_, _, _, _)
BfsLoop(g, queue, visited, out) ==
    IF queue = <<>> THEN out
    ELSE LET st == BfsChildren(Head(queue), g.adj[Head(queue)], visited, Tail(queue), out)
         IN  BfsLoop(g, st.queue, st.visited, st.out)

\* nx.dfs_edges(G, s) in the place of nx.bfs_edges(G, s): a depth-first search
RECURSIVE DfsVisit(_, _, _, _, _)
DfsVisit(g, u, children, visited, out) ==
    IF children = <<>> THEN [visited |-> visited, out |-> out]
    ELSE LET c == Head(children)
         IN  IF c \in visited THEN DfsVisit(g, u, Tail(children), visited, out)
             ELSE LET r == DfsVisit(g, c, g.adj[c], visited \cup {c}, Append(out, <<u, c>>))
                  IN  DfsVisit(g, u, Tail(children), r.visited, r.out)

dfs_edges(g, s) == DfsVisit(g, s, g.adj[s], {s}, <<>>).out

\* a traversal that stops at the direct successors of s
bfs_edges_direct_only(g, s) ==
    LET succ == SelectSeq(g.adj[s], LAMBDA v : v # s)
    IN  [i \in 1..Len(succ) |-> <<s, succ[i]>>]

\* nx.edge_bfs(G, s) in the place of nx.bfs_edges(G, s): every edge that can be
\* reached from s, the edges to nodes already visited included
RECURSIVE OutEdgesOf(_, _)
OutEdgesOf(g, nodes) ==
    IF nodes = <<>> THEN <<>>
    ELSE [i \in 1..Len(g.adj[Head(nodes)]) |-> <<Head(nodes), g.adj[Head(nodes)][i]>>]
            \o OutEdgesOf(g, Tail(nodes))

edge_bfs(g, s) ==
    LET tree == BfsLoop(g, <<s>>, {s}, <<>>)
    IN  OutEdgesOf(g, <<s>> \o [i \in 1..Len(tree) |-> tree[i][2]])

bfs_edges(g, s) == BfsLoop(g, <<s>>, {s}, <<>>)

----------------------------------------------------------------------------
(* analyzer/graph_builder.py *)

\* a float that is the quotient of two integers
Ratio(n, d) == [num |-> n, den |-> d]
Zero == Ratio(0, 1)

\* a.get("weight", 1)
WeightOf(a) == IF "weight" \in DOMAIN a THEN a["weight"] ELSE 1

\* a maximum that keeps the weight of the last edge that exceeds 0.0 rather than
\* the running maximum: here the smallest positive weight
MaxEdgeWeightNotRunning(g) ==
    LET ws == {WeightOf(g.eattr[e]) : e \in DOMAIN g.eattr} \cap {w \in Int : w > 0}
    IN  IF ws = {} THEN 0 ELSE CHOOSE w \in ws : \A x \in ws : w <= x

\* max_w: the largest positive weight over the edges, 0 when there is none
MaxEdgeWeight(g) ==
    LET ws == {WeightOf(g.eattr[e]) : e \in DOMAIN g.eattr} \cap {w \in Int : w > 0}
    IN  IF ws = {} THEN 0 ELSE CHOOSE w \in ws : \A x \in ws : x <= w

\* the edge attributes after the normalization loop of enrich_graph_with_metrics
NormalizedEdges(g) ==
    LET max_w == MaxEdgeWeight(g)
    IN  IF max_w > 0
        THEN [e \in DOMAIN g.eattr |->
                ("normalized_weight" :> Ratio(WeightOf(g.eattr[e]), max_w)) @@ g.eattr[e]]
        ELSE g.eattr

\* nx.degree_centrality(G)[n]
DegreeCentrality(g, n) ==
    IF Len(g.nodes) <= 1 THEN Ratio(1, 1)
    ELSE Ratio(Cardinality({e \in DOMAIN g.eattr : e[1] = n})
                 + Cardinality({e \in DOMAIN g.eattr : e[2] = n}),
               Len(g.nodes) - 1)

\* an enrichment that writes no attribute for a metric whose computation failed
NodeMetricsWithoutFailed(g, n, failed) ==
    (IF "pagerank" \in failed.metrics THEN <<>> ELSE ("pagerank" :> <<"pagerank", n>>))
      @@ (IF "centrality" \in failed.metrics THEN <<>> ELSE ("centrality" :> DegreeCentrality(g, n)))
      @@ (IF "betweenness" \in failed.metrics THEN <<>> ELSE ("betweenness" :> <<"betweenness", n>>))
      @@ (IF "scc_size" \in failed.metrics THEN <<>> ELSE ("scc_size" :> Cardinality(SccOf(g, n))))
      @@ (IF n \in failed.descendants THEN <<>>
          ELSE ("downstream_count" :> Cardinality(descendants(g, n))))

\* the node attributes enrich_graph_with_metrics writes on n when the computations
\* in failed raise (a failed metric of the graph gives the default of pr.get(n, 0.0),
\* a failed nx.descendants(G, n) gives 0 on n); the values of nx.pagerank and
\* nx.betweenness_centrality are kept symbolic
NodeMetrics(g, n, failed) ==
    ("pagerank" :> IF "pagerank" \in failed.metrics THEN Zero ELSE <<"pagerank", n>>)
      @@ ("centrality" :> IF "centrality" \in failed.metrics THEN Zero ELSE DegreeCentrality(g, n))
      @@ ("betweenness" :> IF "betweenness" \in failed.metrics THEN Zero ELSE <<"betweenness", n>>)
      @@ ("scc_size" :> IF "scc_size" \in failed.metrics THEN 1 ELSE Cardinality(SccOf(g, n)))
      @@ ("downstream_count" :> IF n \in failed.descendants THEN 0
                                ELSE Cardinality(descendants(g, n)))

\* an enrichment whose normalization loop writes through G.add_edge(v, u, ...) and
\* so creates the reversed edge
RECURSIVE AddReversed(_, _)
AddReversed(g, es) ==
    IF es = {} THEN g
    ELSE LET e == CHOOSE x \in es : TRUE
         IN  AddReversed(add_edge(g, e[2], e[1], ("normalized_weight" :> Zero)), es \ {e})

enrich_with_reversed_edges(g, failed) == AddReversed(g, DOMAIN g.eattr)

\* enrich_graph_with_metrics(G)
enrich_graph_with_metrics(g, failed) ==
    IF Len(g.nodes) = 0 THEN g
    ELSE [nodes |-> g.nodes,
          nattr |-> [n \in DOMAIN g.nattr |-> NodeMetrics(g, n, failed) @@ g.nattr[n]],
          adj |-> g.adj,
          eattr |-> NormalizedEdges(g)]

\* the inner loop of build_knowledge_graph over data["deps"]
RECURSIVE AddDeps(_, _, _, _)
AddDeps(g, svc, deps, i) ==
    IF i > Len(deps.keys) THEN g
    ELSE LET dep == deps.keys[i]
             g1 == IF HasNode(g, dep) THEN g
                   ELSE add_node(g, dep, ("type" :> "service") @@ ("file_count" :> 0))
         IN  AddDeps(add_edge(g1, svc, dep, ("weight" :> deps.val[dep])), svc, deps, i + 1)

\* a builder that adds a node only as an end of an edge
RECURSIVE AddServicesEdgeEndsOnly(_, _, _)
AddServicesEdgeEndsOnly(g, sg, i) ==
    IF i > Len(sg.keys) THEN g
    ELSE AddServicesEdgeEndsOnly(AddDeps(g, sg.keys[i], sg.val[sg.keys[i]].deps, 1), sg, i + 1)

\* the outer loop of build_knowledge_graph over service_graph.items()
RECURSIVE AddServices(_, _, _)
AddServices(g, sg, i) ==
    IF i > Len(sg.keys) THEN g
    ELSE LET svc == sg.keys[i]
             data == sg.val[svc]
             node_attr == (IF data.contracts # EmptyDict
                           THEN ("contracts" :> data.contracts) ELSE <<>>)
                            @@ ("type" :> "service")
                            @@ ("file_count" :> Len(data.files))
             g1 == IF HasNode(g, svc) THEN g ELSE add_node(g, svc, node_attr)
         IN  AddServices(AddDeps(g1, svc, data.deps, 1), sg, i + 1)

\* a builder that puts a placeholder node into a graph that would have no node
UnenrichedGraphWithPlaceholder(sg) ==
    IF sg.keys = <<>>
    THEN add_node(NoGraph, <<"x">>, ("type" :> "service") @@ ("file_count" :> 0))
    ELSE AddServices(NoGraph, sg, 1)

\* the graph build_knowledge_graph has built when it calls enrich_graph_with_metrics
UnenrichedGraph(sg) == AddServices(NoGraph, sg, 1)

\* build_knowledge_graph(service_graph)
build_knowledge_graph(sg, failed) == enrich_graph_with_metrics(UnenrichedGraph(sg), failed)

\* the older heuristics of impacted_services_from_files for a changed file that
\* map_file_to_service resolved to no service
OlderHeuristic(cf, keys) ==
    LET cf_norm == ReplaceBackslash(cf)
    IN  FirstKey(keys, {svc \in Range(keys) :
            \/ StartsWith(cf_norm, svc \o <<"/">>)
            \/ StartsWith(cf_norm, <<".", "/">> \o svc \o <<"/">>)
            \/ Contains(cf_norm, <<"/">> \o svc \o <<"/">>)})

\* the service one changed file adds to start_services (NoService: none)
ResolveOrigin(dsk, wd, cf, keys) ==
    LET svc == map_file_to_service(dsk, wd, cf, keys)
    IN  IF svc # NoService THEN svc ELSE OlderHeuristic(cf, keys)

\* start_services without the first-service fallback
StartServicesNoFallback(dsk, wd, cfs, keys) ==
    {ResolveOrigin(dsk, wd, cfs[i], keys) : i \in 1..Len(cfs)} \ {NoService}

\* start_services with a fallback to the last service of the map
StartServicesLastFallback(dsk, wd, cfs, keys) ==
    LET resolved == {ResolveOrigin(dsk, wd, cfs[i], keys) : i \in 1..Len(cfs)} \ {NoService}
    IN  IF resolved # {} THEN resolved
        ELSE IF Len(keys) > 0 THEN {keys[Len(keys)]}
        ELSE {}

\* start_services taken from the last changed file alone
StartServicesOfLastFile(dsk, wd, cfs, keys) ==
    LET resolved == IF cfs = <<>> THEN {}
                    ELSE {ResolveOrigin(dsk, wd, cfs[Len(cfs)], keys)} \ {NoService}
    IN  IF resolved # {} THEN resolved
        ELSE IF Len(keys) > 0 THEN {keys[1]}
        ELSE {}

\* start_services, with the first-service fallback
StartServices(dsk, wd, cfs, keys) ==
    LET resolved == {ResolveOrigin(dsk, wd, cfs[i], keys) : i \in 1..Len(cfs)} \ {NoService}
    IN  IF resolved # {} THEN resolved
        ELSE IF Len(keys) > 0 THEN {keys[1]}
        ELSE {}

\* the edge records one origin contributes
OriginEdges(g, s) ==
    LET be == bfs_edges(g, s)
    IN  [i \in 1..Len(be) |->
            [from |-> be[i][1], to |-> be[i][2],
             attr |-> IF HasEdge(g, be[i][1], be[i][2]) THEN g.eattr[be[i]] ELSE <<>>]]

\* the nodes an origin adds when impacted.add(s) is left out
OriginImpactedWithoutOrigin(g, s) ==
    LET be == bfs_edges(g, s)
    IN  {be[i][2] : i \in 1..Len(be)}

\* the nodes one origin adds to impacted
OriginImpacted(g, s) ==
    LET be == bfs_edges(g, s)
    IN  {s} \cup {be[i][2] : i \in 1..Len(be)}

\* a loop over start_services that appends an edge record only when the list does
\* not hold it yet
RECURSIVE TraverseOncePerEdge(_, _, _, _)
TraverseOncePerEdge(g, order, imp, es) ==
    IF order = <<>> THEN [impacted |-> imp, edges |-> es]
    ELSE LET s == Head(order)
             fresh == SelectSeq(OriginEdges(g, s), LAMBDA e : e \notin Range(es))
         IN  IF ~HasNode(g, s) THEN TraverseOncePerEdge(g, Tail(order), imp, es)
             ELSE TraverseOncePerEdge(g, Tail(order), imp \cup OriginImpacted(g, s),
                                      es \o fresh)

\* the loop over start_services, visited in the order given
RECURSIVE Traverse(_, _, _, _)
Traverse(g, order, imp, es) ==
    IF order = <<>> THEN [impacted |-> imp, edges |-> es]
    ELSE LET s == Head(order)
         IN  IF ~HasNode(g, s) THEN Traverse(g, Tail(order), imp, es)
             ELSE Traverse(g, Tail(order), imp \cup OriginImpacted(g, s),
                           es \o OriginEdges(g, s))

\* an impacted_services_from_files that keeps start_services as a list with one
\* entry per changed file that resolves, in the order of the changed files
impacted_services_from_files_per_file(dsk, wd, cfs, keys, g) ==
    LET each == [i \in 1..Len(cfs) |-> ResolveOrigin(dsk, wd, cfs[i], keys)]
        resolved == SelectSeq(each, LAMBDA svc : svc # NoService)
        order == IF resolved # <<>> THEN resolved
                 ELSE IF Len(keys) > 0 THEN <<keys[1]>> ELSE <<>>
        t == Traverse(g, order, {}, <<>>)
    IN  {[impacted |-> SortedList(t.impacted), edges |-> t.edges]}

\* the results impacted_services_from_files(changed_files, services, G) can return:
\* iterating the set start_services visits the origins in any order
impacted_services_from_files(dsk, wd, cfs, keys, g) ==
    {[impacted |-> SortedList(t.impacted), edges |-> t.edges] :
        t \in {Traverse(g, order, {}, <<>>) :
                 order \in Perms(StartServices(dsk, wd, cfs, keys))}}

----------------------------------------------------------------------------
(* analyzer/impact_analyzer.py and the report of run_analysis.py.
   A text that the code assembles from parts is the sequence of its parts; a part
   that depends on the run is a record of the values it is formatted from. *)

\* severity_from_count(n)
severity_from_count(n) ==
    IF n >= 6 THEN "HIGH" ELSE IF n >= 3 THEN "MEDIUM" ELSE "LOW"

\* ", ".join(items)
RECURSIVE JoinComma(_)
JoinComma(items) ==
    IF items = <<>> THEN <<>>
    ELSE IF Len(items) = 1 THEN Head(items)
    ELSE Head(items) \o <<",", " ">> \o JoinComma(Tail(items))

\* the changed files _build_deterministic_markdown lists under the section of svc
RECURSIVE FilesChangedOf(_, _)
FilesChangedOf(svc, cfs) ==
    IF cfs = <<>> THEN <<>>
    ELSE LET norm == ReplaceBackslash(Head(cfs))
         IN  (IF StartsWith(norm, svc \o <<"/">>) \/ Contains(norm, <<"/">> \o svc \o <<"/">>)
              THEN <<Head(cfs)>> ELSE <<>>) \o FilesChangedOf(svc, Tail(cfs))

\* the impact level of the per-service section of svc (service names of the model
\* are lower case)
ImpactLevel(svc) ==
    IF Contains(svc, <<"d", "b">>) \/ Contains(svc, <<"c", "r", "u", "d">>) THEN "Medium"
    ELSE IF Contains(svc, <<"u", "i">>)
              \/ Contains(svc, <<"f", "r", "o", "n", "t", "e", "n", "d">>) THEN "Low"
    ELSE "High"

\* _build_deterministic_markdown(pr_title, changed_files, impacted_services, ...):
\* the values its fixed text is filled with
build_deterministic_markdown(cfs, imp) ==
    [part |-> "deterministic",
     severity |-> severity_from_count(Len(imp)),
     impacted_display |-> IF imp # <<>> THEN JoinComma(imp) ELSE <<"N", "o", "n", "e">>,
     changed_count |-> Len(cfs),
     changed_display |-> JoinComma(cfs),
     sections |-> [i \in 1..Len(imp) |->
                     [svc |-> imp[i],
                      files_changed |-> FilesChangedOf(imp[i], cfs),
                      impact_level |-> ImpactLevel(imp[i])]]]

\* content.strip() is empty
IsBlank(content) == \A i \in 1..Len(content) : content[i] \in {" ", "\n"}

\* the header analyze puts before the deterministic report when the call failed
FallbackHeader(error) == [part |-> "llm_failed", error |-> error]

\* an analyze that returns the reply of the model without testing it for blank
analyze_unchecked(client, cfs, imp) ==
    IF client.client
    THEN IF client.outcome = "text"
         THEN <<[part |-> "llm", text |-> client.content]>>
         ELSE <<FallbackHeader(client.error), build_deterministic_markdown(cfs, imp)>>
    ELSE <<build_deterministic_markdown(cfs, imp)>>

\* analyze(pr_title, changed_files, impacted_services, graph_json, snippets)
analyze(client, cfs, imp) ==
    IF client.client
    THEN IF client.outcome = "text" /\ ~IsBlank(client.content)
         THEN <<[part |-> "llm", text |-> client.content]>>
         ELSE <<FallbackHeader(IF client.outcome = "text"
                               THEN "LLM returned empty content" ELSE client.error),
                build_deterministic_markdown(cfs, imp)>>
    ELSE <<build_deterministic_markdown(cfs, imp)>>

----------------------------------------------------------------------------
(* The steps of an analysis run (run_analysis.py) *)

\* services = discover_microservices(base_dir)
Discover ==
    /\ pc = "setup"
    /\ services' = discover_microservices(repo)
    /\ pc' = "discovered"
    /\ UNCHANGED <<repo, cwd, disk, svc_graph, G, G0, changed_files, impacted, edges, run2, llm, report, failing>>

\* svc_graph = build_service_dependency_graph(services)
BuildServiceDependencyGraph ==
    /\ pc = "discovered"
    /\ svc_graph' \in build_service_dependency_graph(repo, cwd, services)
    /\ pc' = "scanned"
    /\ UNCHANGED <<repo, cwd, disk, services, G, G0, changed_files, impacted, edges, run2, llm, report, failing>>

\* KG = build_knowledge_graph(svc_graph)
BuildKnowledgeGraph ==
    /\ pc = "scanned"
    /\ G0' = UnenrichedGraph(svc_graph)
    /\ G' = build_knowledge_graph(svc_graph, failing)
    /\ pc' = "built"
    /\ UNCHANGED <<repo, cwd, disk, services, svc_graph, changed_files, impacted, edges, run2, llm, report, failing>>

\* a further enrich_graph_with_metrics(KG) on the built graph
EnrichAgain ==
    /\ pc = "built"
    /\ G' = enrich_graph_with_metrics(G, failing)
    /\ pc' = "reenriched"
    /\ UNCHANGED <<repo, cwd, disk, services, svc_graph, G0, changed_files, impacted, edges, run2, llm, report, failing>>

\* impacted, edges = impacted_services_from_files(changed_files, services, KG)
Impact ==
    /\ pc = "built"
    /\ \E r \in impacted_services_from_files(disk, cwd, changed_files, services.keys, G) :
          /\ impacted' = r.impacted
          /\ edges' = r.edges
    /\ pc' = "done"
    /\ UNCHANGED <<repo, cwd, disk, services, svc_graph, G, G0, changed_files, run2, llm, report, failing>>

\* "impact-summary.json", opened relative to the working directory
SummaryName == <<"i", "m", "p", "a", "c", "t", "-", "s", "u", "m", "m", "a", "r", "y", ".", "j", "s", "o", "n">>
SummaryPath(wd) == PathJoin(wd, SummaryName)

\* a JSON string
JsonString(str) == <<"\"">> \o str \o <<"\"">>

\* json.dump of a list of strings with indent=2, inside an object
RECURSIVE JsonItems(_)
JsonItems(items) ==
    IF items = <<>> THEN <<>>
    ELSE <<"\n", " ", " ", " ", " ">> \o JsonString(Head(items))
           \o (IF Len(items) > 1 THEN <<",">> ELSE <<>>) \o JsonItems(Tail(items))

JsonList(items) ==
    IF items = <<>> THEN <<"[", "]">>
    ELSE <<"[">> \o JsonItems(items) \o <<"\n", " ", " ", "]">>

\* str(n) for 0 <= n <= 9
Digit(n) == <<"0", "1", "2", "3", "4", "5", "6", "7", "8", "9">>[n + 1]

\* json.dump(summary, f, indent=2): the text of impact-summary.json; generated_at
\* is the instant of the run, PR_TITLE is unset
SummaryText(cfs, imp) ==
    <<"{", "\n", " ", " ", "\"", "g", "e", "n", "e", "r", "a", "t", "e", "d", "_", "a", "t", "\"", ":", " ", "\"", "2", "0", "2", "4", "-", "0", "1", "-", "0", "1", "T", "0", "0", ":", "0", "0", ":", "0", "0", "Z", "\"", ",">>
      \o <<"\n", " ", " ", "\"", "p", "r", "_", "t", "i", "t", "l", "e", "\"", ":", " ", "\"", "(", "n", "o", " ", "P", "R", " ", "t", "i", "t", "l", "e", ")", "\"", ",">>
      \o <<"\n", " ", " ", "\"", "c", "h", "a", "n", "g", "e", "d", "_", "f", "i", "l", "e", "s", "\"", ":", " ">> \o JsonList(cfs) \o <<",">>
      \o <<"\n", " ", " ", "\"", "i", "m", "p", "a", "c", "t", "e", "d", "\"", ":", " ">> \o JsonList(imp) \o <<",">>
      \o <<"\n", " ", " ", "\"", "r", "i", "s", "k", "_", "e", "s", "t", "i", "m", "a", "t", "e", "\"", ":", " ">> \o <<Digit(Len(imp))>>
      \o <<"\n", "}">>

\* one row of the table of impacted services: f"| {svc} | <check mark> Impacted |"
\* (the element "U+2705" is the one character of that code point)
ImpactedRow(svc) ==
    <<"|", " ">> \o svc \o <<" ", "|", " ", "U+2705", " ", "I", "m", "p", "a", "c", "t", "e", "d", " ", "|">>

\* the table of premium_dashboard_wrapper, as the sequence of its lines
impacted_table(imp) ==
    IF imp # <<>> THEN [i \in 1..Len(imp) |-> ImpactedRow(imp[i])]
    ELSE << <<"|", " ", "N", "o", "n", "e", " ", "|", " ", "N", "o", " ", "i", "m", "p", "a", "c", "t", " ", "d", "e", "t", "e", "c", "t", "e", "d", " ", "|">> >>

\* premium_dashboard_wrapper(pr_title, changed_files, impacted_services, inner)
premium_dashboard_wrapper(cfs, imp, inner_ai_output) ==
    [part |-> "dashboard",
     files_changed |-> Len(cfs),
     impacted_services |-> Len(imp),
     risk_level |-> IF Len(imp) <= 1 THEN "Low" ELSE IF Len(imp) <= 3 THEN "Medium" ELSE "High",
     impacted_table |-> impacted_table(imp),
     inner_ai_output |-> inner_ai_output]

\* the header comment run_analysis puts before every report
ReportHeader == [part |-> "header"]

\* run_analysis with CHANGED_FILES empty: it returns before any discovery
ReturnNoChanges ==
    /\ pc = "setup"
    /\ changed_files = <<>>
    /\ report' = <<ReportHeader, [part |-> "no_changed_files"]>>
    /\ pc' = "reported"
    /\ UNCHANGED <<repo, cwd, disk, services, svc_graph, G, G0, changed_files, impacted, edges, run2, llm, failing>>

\* steps 4 to 6 of run_analysis: the analysis text (snippets only enter the prompt),
\* the dashboard around it, and the summary written into the working directory (an
\* exception of the write is swallowed and leaves the file as it was)
Report ==
    /\ pc = "done"
    /\ report' = <<ReportHeader,
                   premium_dashboard_wrapper(changed_files, impacted,
                                             analyze(llm, changed_files, impacted))>>
    /\ \/ disk' = [q \in DOMAIN disk \cup {SummaryPath(cwd)} |->
                      IF q = SummaryPath(cwd) THEN SummaryText(changed_files, impacted)
                      ELSE disk[q]]
       \/ disk' = disk
    /\ pc' = "reported"
    /\ UNCHANGED <<repo, cwd, services, svc_graph, G, G0, changed_files, impacted, edges, run2, llm, failing>>

\* the steps of the second run, on its own locals
Run2Discover ==
    /\ run2 # NoRun /\ run2.pc = "setup"
    /\ run2' = [run2 EXCEPT !.pc = "discovered", !.services = discover_microservices(repo)]
    /\ UNCHANGED <<pc, repo, cwd, disk, services, svc_graph, G, G0, changed_files, impacted, edges, llm, report, failing>>

Run2BuildServiceDependencyGraph ==
    /\ run2 # NoRun /\ run2.pc = "discovered"
    /\ \E sg \in build_service_dependency_graph(repo, cwd, run2.services) :
          run2' = [run2 EXCEPT !.pc = "scanned", !.svc_graph = sg]
    /\ UNCHANGED <<pc, repo, cwd, disk, services, svc_graph, G, G0, changed_files, impacted, edges, llm, report, failing>>

Run2BuildKnowledgeGraph ==
    /\ run2 # NoRun /\ run2.pc = "scanned"
    /\ run2' = [run2 EXCEPT !.pc = "built", !.G = build_knowledge_graph(run2.svc_graph, failing)]
    /\ UNCHANGED <<pc, repo, cwd, disk, services, svc_graph, G, G0, changed_files, impacted, edges, llm, report, failing>>

Run2Impact ==
    /\ run2 # NoRun /\ run2.pc = "built"
    /\ \E r \in impacted_services_from_files(disk, cwd, run2.changed_files,
                                              run2.services.keys, run2.G) :
          run2' = [run2 EXCEPT !.pc = "done", !.impacted = r.impacted, !.edges = r.edges]
    /\ UNCHANGED <<pc, repo, cwd, disk, services, svc_graph, G, G0, changed_files, impacted, edges, llm, report, failing>>

Run2Report ==
    /\ run2 # NoRun /\ run2.pc = "done"
    /\ \/ disk' = [q \in DOMAIN disk \cup {SummaryPath(cwd)} |->
                      IF q = SummaryPath(cwd)
                      THEN SummaryText(run2.changed_files, run2.impacted)
                      ELSE disk[q]]
       \/ disk' = disk
    /\ run2' = [run2 EXCEPT
                   !.pc = "reported",
                   !.report = <<ReportHeader,
                                premium_dashboard_wrapper(
                                    run2.changed_files, run2.impacted,
                                    analyze(llm, run2.changed_files, run2.impacted))>>]
    /\ UNCHANGED <<pc, repo, cwd, services, svc_graph, G, G0, changed_files, impacted, edges, llm, report, failing>>

----------------------------------------------------------------------------
(* Specification of the graph construction: any repository within the bounds is
   written, then discovered, scanned, built and enriched *)

W == <<"/", "w">>

\* the base directory holds one directory that is no service
InitialRepo == lib :> [manifest |-> NoManifest, contracts |-> NoDescriptors, files |-> <<>>]

BuildCwdChoices == {W, BaseDir}
NoDisk == <<>>

InitBuild ==
    /\ pc = "setup"
    /\ repo = InitialRepo
    /\ cwd \in BuildCwdChoices
    /\ disk = NoDisk
    /\ services = NoServices
    /\ svc_graph = EmptyDict
    /\ G = NoGraph
    /\ G0 = NoGraph
    /\ changed_files = <<>>
    /\ impacted = <<>>
    /\ edges = <<>>
    /\ run2 = NoRun
    /\ llm = NoClient
    /\ report = NoReport
    /\ failing = NoFailure

NextBuild ==
    \/ MakeDir
    \/ WriteFile
    \/ Discover
    \/ BuildServiceDependencyGraph
    \/ BuildKnowledgeGraph
    \/ EnrichAgain

SpecBuild == InitBuild /\ [][NextBuild]_vars

----------------------------------------------------------------------------
(* Specification of the scan of a directory tree that holds files of every kind:
   files in hidden and in package directories, files without source extension,
   files that cannot be opened and files that hold bytes that are not UTF-8 *)

\* the subsequences of q
RECURSIVE Subsequences(_)
Subsequences(q) ==
    IF q = <<>> THEN {<<>>}
    ELSE LET rest == Subsequences(Tail(q))
         IN  rest \cup {<<Head(q)>> \o x : x \in rest}

\* the trees scanned. Under ui-a: any of a.py (readable, or not to be opened, or with
\* bytes that are not UTF-8), .git/b.py, node_modules/c.py and d.md, each with a
\* text that refers to ui-b, in the order os.walk meets them; nothing under svc-c.
\* Or a.py alone under ui-a, and under svc-c any of: openapi.json (the descriptor
\* of test_parse_openapi, a JSON list, a descriptor without paths, one whose paths
\* are a list, or a file not to be opened), swagger.yaml that does not load,
\* notes.json, service.proto, bad.proto with an rpc line before its service line,
\* and api/Swagger.YML with two paths.
\* A file has the record [path, deps, readable, decodable]; a descriptor file has
\* the record [dir, name, readable, loads, data, lines], where data is the value
\* json.loads or yaml.safe_load gives and lines are the lines of a .proto file
ScanRepos ==
    LET FileUnder(rel, readable, decodable) ==
            [path |-> BaseDir \o <<"/">> \o rel, deps |-> {tok_ui_b},
             readable |-> readable, decodable |-> decodable]
        a_py == <<"u", "i", "-", "a", "/", "a", ".", "p", "y">>
        ScanFileLists ==
            UNION {Subsequences(
                     <<FileUnder(a_py, v[1], v[2]),
                       FileUnder(<<"u", "i", "-", "a", "/", ".", "g", "i", "t", "/", "b", ".", "p", "y">>, TRUE, TRUE),
                       FileUnder(<<"u", "i", "-", "a", "/", "n", "o", "d", "e", "_", "m", "o", "d", "u", "l", "e", "s", "/", "c", ".", "p", "y">>, TRUE, TRUE),
                       FileUnder(<<"u", "i", "-", "a", "/", "d", ".", "m", "d">>, TRUE, TRUE)>>) :
                   v \in {<<TRUE, TRUE>>, <<FALSE, TRUE>>, <<TRUE, FALSE>>}}
        NoPaths == [kind |-> "none", keys |-> <<>>, val |-> <<>>]
        NoData == [isdict |-> FALSE, info |-> EmptyDict, paths |-> NoPaths]
        Methods(ks) == [isdict |-> TRUE, keys |-> ks]
        \* {"openapi": "3.0.0", "info": {}, "paths": {"/items": {"get": {}}}}
        ItemsData ==
            [isdict |-> TRUE, info |-> EmptyDict,
             paths |-> [kind |-> "dict", keys |-> <<"/items">>,
                        val |-> ("/items" :> Methods(<<"get">>))]]
        \* paths: {"/items": {"get": {}, "post": {}}, "/x": null}
        TwoPathsData ==
            [isdict |-> TRUE, info |-> EmptyDict,
             paths |-> [kind |-> "dict", keys |-> <<"/items", "/x">>,
                        val |-> ("/items" :> Methods(<<"get", "post">>))
                                  @@ ("/x" :> [isdict |-> FALSE, keys |-> <<>>])]]
        \* {"info": {}} without "paths"
        NoPathsData == [isdict |-> TRUE, info |-> EmptyDict, paths |-> NoPaths]
        \* {"paths": ["/items"]}
        PathsListData ==
            [isdict |-> TRUE, info |-> EmptyDict,
             paths |-> [kind |-> "list", keys |-> <<>>, val |-> <<>>]]
        ApiFile(dir, name, readable, loads, data) ==
            [dir |-> dir, name |-> name, readable |-> readable, loads |-> loads,
             data |-> data, lines |-> <<>>]
        ProtoFile(name, lines) ==
            [dir |-> <<>>, name |-> name, readable |-> TRUE, loads |-> "none",
             data |-> NoData, lines |-> lines]
        openapi_json == <<"o", "p", "e", "n", "a", "p", "i", ".", "j", "s", "o", "n">>
        OpenapiJsonChoices ==
            {ApiFile(<<>>, openapi_json, TRUE, "json", ItemsData),
             ApiFile(<<>>, openapi_json, TRUE, "json", NoData),
             ApiFile(<<>>, openapi_json, TRUE, "json", NoPathsData),
             ApiFile(<<>>, openapi_json, TRUE, "json", PathsListData),
             ApiFile(<<>>, openapi_json, FALSE, "none", NoData)}
        DescriptorLists ==
            UNION {Subsequences(
                     <<o,
                       ApiFile(<<>>, <<"s", "w", "a", "g", "g", "e", "r", ".", "y", "a", "m", "l">>, TRUE, "none", NoData),
                       ApiFile(<<>>, <<"n", "o", "t", "e", "s", ".", "j", "s", "o", "n">>, TRUE, "json", ItemsData),
                       ProtoFile(<<"s", "e", "r", "v", "i", "c", "e", ".", "p", "r", "o", "t", "o">>,
                                 <<[kind |-> "service", name |-> "MyService"],
                                   [kind |-> "rpc", name |-> "DoThing"],
                                   [kind |-> "other", name |-> ""]>>),
                       ProtoFile(<<"b", "a", "d", ".", "p", "r", "o", "t", "o">>,
                                 <<[kind |-> "rpc", name |-> "DoThing"],
                                   [kind |-> "service", name |-> "MyService"]>>),
                       ApiFile(<<"a", "p", "i">>, <<"S", "w", "a", "g", "g", "e", "r", ".", "Y", "M", "L">>, TRUE, "yaml", TwoPathsData)>>) :
                   o \in OpenapiJsonChoices}
        DescriptorFile(d) ==
            [path |-> BaseDir \o <<"/">> \o svc_c \o <<"/">> \o RelPath(d), deps |-> {},
             readable |-> d.readable, decodable |-> TRUE]
        ScanRepo(fa, ds) ==
            InitialRepo
              @@ (ui_a :> [manifest |-> NoManifest, contracts |-> NoDescriptors, files |-> fa])
              @@ (ui_b :> [manifest |-> NoManifest, contracts |-> NoDescriptors, files |-> <<>>])
              @@ (svc_c :> [manifest |-> NoManifest, contracts |-> ds,
                            files |-> [i \in 1..Len(ds) |-> DescriptorFile(ds[i])]])
    IN  {ScanRepo(fa, NoDescriptors) : fa \in ScanFileLists}
            \cup {ScanRepo(<<FileUnder(a_py, TRUE, TRUE)>>, ds) : ds \in DescriptorLists}

InitScan ==
    /\ pc = "setup"
    /\ repo \in ScanRepos
    /\ cwd \in BuildCwdChoices
    /\ disk = NoDisk
    /\ services = NoServices
    /\ svc_graph = EmptyDict
    /\ G = NoGraph
    /\ G0 = NoGraph
    /\ changed_files = <<>>
    /\ impacted = <<>>
    /\ edges = <<>>
    /\ run2 = NoRun
    /\ llm = NoClient
    /\ report = NoReport
    /\ failing = NoFailure

NextScan ==
    \/ Discover
    \/ BuildServiceDependencyGraph
    \/ BuildKnowledgeGraph

SpecScan == InitScan /\ [][NextScan]_vars

----------------------------------------------------------------------------
(* Specification of impacted_services_from_files as a function of its arguments:
   any changed-file list, any service map and any enriched graph within the bounds *)

ServiceNames == {ui_a, ui_b, svc_c}

\* the dicts of services that can be passed: any keys in any insertion order
ServiceMaps ==
    {[keys |-> k, files |-> [n \in Range(k) |-> <<>>]] :
        k \in UNION {Perms(S) : S \in SUBSET ServiceNames}}

\* the weight of each edge a passed graph can have: all different but two, so that
\* an attribute taken from another edge shows
EdgeWeight(u, v) ==
    CASE <<u, v>> = <<svc_c, ui_a>> -> 2
      [] <<u, v>> = <<ui_a, ui_b>> -> 1
      [] <<u, v>> = <<ui_b, svc_c>> -> 3
      [] <<u, v>> = <<ui_a, svc_c>> -> 4
      [] <<u, v>> = <<ui_b, ui_a>> -> 5
      [] OTHER -> 1

\* the graphs that can be passed, before enrichment: any nodes among the service
\* names and any successor lists without self-loop
RawGraphs ==
    UNION {
        {[nodes |-> SortedList(N),
          nattr |-> [n \in N |-> ("type" :> "service") @@ ("file_count" :> 0)],
          adj |-> a,
          eattr |-> [e \in {<<u, v>> \in N \X N : v \in Range(a[u])} |->
                        ("weight" :> EdgeWeight(e[1], e[2]))]] :
            a \in {b \in [N -> UNION {Perms(S) : S \in SUBSET N}] :
                     \A n \in N : n \notin Range(b[n])}} :
        N \in SUBSET ServiceNames}

\* changed-file paths: one under a service directory, one absolute, and one of a
\* document outside every service directory
path_prefix == ui_a \o <<"/", "f">>
path_abs == BaseDir \o <<"/">> \o ui_b \o <<"/", "z", "z">>
path_doc == <<"d", "/", "n">>
ChangedPaths == {path_prefix, path_abs, path_doc}

RECURSIVE SeqsUpTo(_, _)
SeqsUpTo(S, n) ==
    IF n = 0 THEN {<<>>}
    ELSE SeqsUpTo(S, n - 1)
           \cup {Append(q, x) : q \in {r \in SeqsUpTo(S, n - 1) : Len(r) = n - 1}, x \in S}

ChangedLists == SeqsUpTo(ChangedPaths, MaxChanged)

\* the document names svc-c as a whole word and ui-a only inside a longer word
DocText == <<"x">> \o ui_a \o <<" ">> \o svc_c
DiskWithDoc == (W \o <<"/">> \o path_doc) :> DocText

\* working directory and file contents of the process: outside the repository with
\* the document readable, or inside the directory of ui-b
Environments == {<<W, DiskWithDoc>>, <<BaseDir \o <<"/">> \o ui_b, NoDisk>>}

InitImpact ==
    /\ pc = "built"
    /\ repo = <<>>
    /\ \E env \in Environments : cwd = env[1] /\ disk = env[2]
    /\ services \in ServiceMaps
    /\ svc_graph = EmptyDict
    /\ G0 \in RawGraphs
    /\ G = enrich_graph_with_metrics(G0, NoFailure)
    /\ changed_files \in ChangedLists
    /\ impacted = <<>>
    /\ edges = <<>>
    /\ run2 = NoRun
    /\ llm = NoClient
    /\ report = NoReport
    /\ failing = NoFailure

NextImpact == Impact

SpecImpact == InitImpact /\ [][NextImpact]_vars

----------------------------------------------------------------------------
(* Specification of the origin resolution of one changed file: a run of
   impacted_services_from_files on one changed-file path of every shape, written
   with either path separator, on a graph that holds every service and no edge *)

\* the path with every "/" written as a backslash
WithBackslashes(path) == [i \in 1..Len(path) |-> IF path[i] = "/" THEN "\\" ELSE path[i]]

\* the runs: working directory, file contents and changed-file path. The paths are
\* one under a service directory, one under a service directory with another
\* service name as a part, one with a service name as a part whose file names another
\* service, one of a document that names a service, and two absolute ones
ResolveInputs ==
    LET part_doc == <<"x", "/">> \o ui_a \o <<"/", "n">>
        nested == ui_b \o <<"/">> \o ui_a \o <<"/", "f">>
        abs_doc == W \o <<"/">> \o path_doc
        paths == {path_prefix, nested, part_doc, path_doc, path_abs, abs_doc}
        files == DiskWithDoc @@ ((W \o <<"/">> \o part_doc) :> svc_c)
    IN  {[cwd |-> env[1], disk |-> env[2], changed_files |-> <<q>>] :
            env \in {<<W, files>>, <<BaseDir \o <<"/">> \o ui_b, NoDisk>>},
            q \in paths \cup {WithBackslashes(path) : path \in paths}}

InitResolve ==
    /\ pc = "built"
    /\ repo = <<>>
    /\ \E inp \in ResolveInputs :
          cwd = inp.cwd /\ disk = inp.disk /\ changed_files = inp.changed_files
    /\ services \in ServiceMaps
    /\ svc_graph = EmptyDict
    /\ G0 \in {g \in RawGraphs : NodeSet(g) = ServiceNames /\ DOMAIN g.eattr = {}}
    /\ G = enrich_graph_with_metrics(G0, NoFailure)
    /\ impacted = <<>>
    /\ edges = <<>>
    /\ run2 = NoRun
    /\ llm = NoClient
    /\ report = NoReport
    /\ failing = NoFailure

NextResolve == Impact

SpecResolve == InitResolve /\ [][NextResolve]_vars

----------------------------------------------------------------------------
(* Specification of build_knowledge_graph as a function of its argument and of the
   metric computations that raise: any service graph over the service names *)

\* the "deps" dicts a service graph can hold for svc among the services N
DepsChoices(svc, N) ==
    {[keys |-> SortedList(D), val |-> [d \in D |-> EdgeWeight(svc, d)]] :
        D \in SUBSET (N \ {svc})}

\* the service graphs that can be passed: single services, services without
\* dependency, chains and cycles
EnrichServiceGraphs ==
    UNION {
        {[keys |-> SortedList(N),
          val |-> [svc \in N |-> [files |-> <<>>, deps |-> d[svc], contracts |-> EmptyDict]]] :
            d \in {x \in [N -> UNION {DepsChoices(svc, N) : svc \in N}] :
                     \A svc \in N : x[svc] \in DepsChoices(svc, N)}} :
        N \in SUBSET ServiceNames}

InitEnrich ==
    /\ pc = "scanned"
    /\ repo = <<>>
    /\ cwd = W
    /\ disk = NoDisk
    /\ services = NoServices
    /\ svc_graph \in EnrichServiceGraphs
    /\ G = NoGraph
    /\ G0 = NoGraph
    /\ changed_files = <<>>
    /\ impacted = <<>>
    /\ edges = <<>>
    /\ run2 = NoRun
    /\ llm = NoClient
    /\ report = NoReport
    /\ failing \in [metrics : SUBSET {"pagerank", "centrality", "betweenness", "scc_size"},
                     descendants : SUBSET ServiceNames]

NextEnrich ==
    \/ BuildKnowledgeGraph
    \/ EnrichAgain

SpecEnrich == InitEnrich /\ [][NextEnrich]_vars

----------------------------------------------------------------------------
(* Specification of two analysis runs of one process on the same read-only
   directory tree, their steps interleaved in any order *)

\* a source file of service name, as WriteFile writes it
SourceFile(name, k, deps) ==
    [path |-> BaseDir \o <<"/">> \o name \o <<"/">> \o FileNames[k],
     deps |-> deps, readable |-> TRUE, decodable |-> TRUE]

\* the trees the two runs analyse: ui-a, ui-b and svc-c, where ui-a refers to ui-b,
\* with or without a reference from ui-b to svc-c
TwoRunsRepos ==
    {InitialRepo
       @@ (ui_a :> [manifest |-> NoManifest, contracts |-> NoDescriptors,
                    files |-> <<SourceFile(ui_a, 1, {tok_ui_b})>>])
       @@ (ui_b :> [manifest |-> NoManifest, contracts |-> NoDescriptors, files |-> fb])
       @@ (svc_c :> [manifest |-> m, contracts |-> NoDescriptors, files |-> <<>>]) :
          fb \in {<<>>, <<SourceFile(ui_b, 1, {tok_x})>>}, m \in ManifestChoices}

\* CHANGED_FILES of a run: a file of ui-a, and a file in no service directory that
\* has the name of the summary
TwoRunsLists == SeqsUpTo({path_prefix, SummaryName}, MaxChanged) \ {<<>>}

InitTwoRuns ==
    /\ pc = "setup"
    /\ repo \in TwoRunsRepos
    /\ cwd = W
    /\ disk = NoDisk
    /\ services = NoServices
    /\ svc_graph = EmptyDict
    /\ G = NoGraph
    /\ G0 = NoGraph
    /\ changed_files \in TwoRunsLists
    /\ impacted = <<>>
    /\ edges = <<>>
    /\ \E cfs \in TwoRunsLists :
          run2 = [pc |-> "setup", changed_files |-> cfs, services |-> NoServices,
                  svc_graph |-> EmptyDict, G |-> NoGraph, impacted |-> <<>>, edges |-> <<>>,
                  report |-> NoReport]
    /\ llm = NoClient
    /\ report = NoReport
    /\ failing = NoFailure

NextTwoRuns ==
    \/ Discover
    \/ BuildServiceDependencyGraph
    \/ BuildKnowledgeGraph
    \/ Impact
    \/ Report
    \/ Run2Discover
    \/ Run2BuildServiceDependencyGraph
    \/ Run2BuildKnowledgeGraph
    \/ Run2Impact
    \/ Run2Report

SpecTwoRuns == InitTwoRuns /\ [][NextTwoRuns]_vars

----------------------------------------------------------------------------
(* Specification of one whole analysis run (run_analysis) on a directory tree *)

\* the directory trees a run is given: an empty base directory, one without any
\* service directory, and the trees of TwoRunsRepos
RunRepos == {<<>>, InitialRepo} \cup TwoRunsRepos

\* CHANGED_FILES of a run: a relative path under ui-a, an absolute path under ui-b,
\* and an absolute path under ui-b in a directory that has the name of svc-c
path_nested == BaseDir \o <<"/">> \o ui_b \o <<"/">> \o svc_c \o <<"/", "f">>
RunLists == SeqsUpTo({path_prefix, path_abs, path_nested}, MaxChanged)

\* the model client of the process: none, or one whose call returns a text, a blank
\* text, no text at all, or raises
LlmChoices ==
    {NoClient,
     [client |-> TRUE, outcome |-> "text", content |-> <<"o", "k">>],
     [client |-> TRUE, outcome |-> "text", content |-> <<" ", "\n">>],
     [client |-> TRUE, outcome |-> "text", content |-> <<>>],
     [client |-> TRUE, outcome |-> "none", error |-> "AttributeError"],
     [client |-> TRUE, outcome |-> "raises", error |-> "APIError"]}

InitRun ==
    /\ pc = "setup"
    /\ repo \in RunRepos
    /\ cwd \in BuildCwdChoices
    /\ disk = NoDisk
    /\ services = NoServices
    /\ svc_graph = EmptyDict
    /\ G = NoGraph
    /\ G0 = NoGraph
    /\ changed_files \in RunLists
    /\ impacted = <<>>
    /\ edges = <<>>
    /\ run2 = NoRun
    /\ llm \in LlmChoices
    /\ report = NoReport
    /\ failing = NoFailure

\* run_analysis discovers only when CHANGED_FILES is not empty
RunDiscover == changed_files # <<>> /\ Discover

NextRun ==
    \/ ReturnNoChanges
    \/ RunDiscover
    \/ BuildServiceDependencyGraph
    \/ BuildKnowledgeGraph
    \/ Impact
    \/ Report

SpecRun == InitRun /\ [][NextRun]_vars

----------------------------------------------------------------------------
(* Definitions the claims are stated with *)

Built == pc \in {"built", "reenriched"}
Done == pc = "done"

\* there is a directed path of G from u to v with at most Cardinality(NodeSet(g)) - 1 edges
PathExists(g, u, v) ==
    \E k \in 0..(Cardinality(NodeSet(g)) - 1) :
        \E p \in [1..(k + 1) -> NodeSet(g)] :
            /\ p[1] = u
            /\ p[k + 1] = v
            /\ \A i \in 1..k : HasEdge(g, p[i], p[i + 1])

\* the service each changed-file path resolves to, for every working directory with
\* its file contents and every order of service keys that a run can be given
ResolvedService ==
    [env \in Environments, path \in ChangedPaths,
     keys \in {m.keys : m \in ServiceMaps} |->
        ResolveOrigin(env[2], env[1], path, keys)]

\* the services the changed files of the run resolve to
Resolved ==
    {ResolvedService[<<cwd, disk>>, changed_files[i], services.keys] :
        i \in 1..Len(changed_files)} \ {NoService}

\* the origin services of the run: the resolved services, or the first service of
\* the map when no changed file resolves, that are nodes of the graph (a service
\* that is no node of the graph contributes no origin)
Origins ==
    {s \in (IF Resolved # {} THEN Resolved
            ELSE IF services.keys # <<>> THEN {services.keys[1]} ELSE {}) :
        HasNode(G, s)}

\* the least number of edges of a directed path of g from u to v (v reachable from u)
Dist(g, u, v) ==
    CHOOSE k \in 0..(Cardinality(NodeSet(g)) - 1) :
        /\ \E p \in [1..(k + 1) -> NodeSet(g)] :
              p[1] = u /\ p[k + 1] = v /\ \A i \in 1..k : HasEdge(g, p[i], p[i + 1])
        /\ \A j \in 0..(k - 1) :
              ~\E p \in [1..(j + 1) -> NodeSet(g)] :
                  p[1] = u /\ p[j + 1] = v /\ \A i \in 1..j : HasEdge(g, p[i], p[i + 1])

\* the source-file records of service A in the repository
FileRecs(A) == repo[A].files

\* token t holds an identifier of service B
Matches(t, B) ==
    \E ident \in build_service_identifiers(repo, cwd, InferredBaseDir(services), services)[B] :
        Contains(t, ident)

----------------------------------------------------------------------------
(* C1..C10 *)

\* C1: the impacted list returned by impacted_services_from_files is exactly the
\* set of nodes of G reachable along directed edges in zero or more steps from the
\* origin services: every reachable node is listed and no unreachable node is.
C1_ImpactedIsReachableSet ==
    Done => Range(impacted) = {n \in NodeSet(G) : \E o \in Origins : PathExists(G, o, n)}

\* a run in which a node two edges away from the only origin is impacted while
\* another node of the graph is not
C1_Witness ==
    /\ Done
    /\ \E o \in Origins, n \in Range(impacted) :
          /\ Origins = {o}
          /\ ~HasEdge(G, o, n) /\ n # o
    /\ Cardinality(NodeSet(G)) = 3

\* C2: the graph built by build_service_dependency_graph and build_knowledge_graph
\* has no self-loop: no service is a key of its own deps and no edge (A, A) exists.
C2_NoSelfLoop ==
    /\ pc \in {"scanned", "built", "reenriched"} =>
          \A A \in Range(svc_graph.keys) : A \notin Range(svc_graph.val[A].deps.keys)
    /\ Built => \A A \in NodeSet(G) : ~HasEdge(G, A, A)

\* a built graph of a repository in which a file of ui-a holds a token that holds an
\* identifier of ui-a itself
C2_Witness ==
    /\ Built
    /\ ui_a \in Range(services.keys)
    /\ \E i \in 1..Len(FileRecs(ui_a)) : \E t \in FileRecs(ui_a)[i].deps : Matches(t, ui_a)

\* C3: every discovered service is a node of the built graph, also a service with
\* no edge and a service with no files.
C3_EveryServiceIsNode ==
    Built => Range(services.keys) \subseteq NodeSet(G)

\* a built graph with a service that has no files and no edge, beside an edge
C3_Witness ==
    /\ Built
    /\ EdgeSet(G) # {}
    /\ \E S \in Range(services.keys) :
          /\ services.files[S] = <<>>
          /\ \A e \in EdgeSet(G) : e[1] # S /\ e[2] # S


\* the (file, token) pairs of service A whose token satisfies P: a token counts once
\* for each file it is extracted from
TokenPairs(A, P(_)) ==
    {<<i, t>> \in (1..Len(FileRecs(A))) \X Tokens : t \in FileRecs(A)[i].deps /\ P(t)}

\* B is the first service in iteration order, other than A, an identifier of which
\* token t holds
IsFirstMatch(t, A, B) ==
    /\ Matches(t, B)
    /\ \A i, j \in 1..Len(services.keys) :
          (services.keys[j] = B /\ i < j /\ services.keys[i] # A)
              => ~Matches(t, services.keys[i])

\* C4 as claimed: for distinct services A and B the built graph has an edge A->B of
\* weight n >= 1 iff the files of A hold exactly n dependency tokens that match an
\* identifier of B, and no edge A->B when no token matches.
C4_EdgeIffAnyMatch ==
    Built =>
        \A A, B \in Range(services.keys) :
            A # B =>
                LET n == Cardinality(TokenPairs(A, LAMBDA t : Matches(t, B)))
                IN  /\ n >= 1 => (HasEdge(G, A, B) /\ G.eattr[<<A, B>>]["weight"] = n)
                    /\ n = 0 => ~HasEdge(G, A, B)

\* C4 (amended): for distinct services A and B the built graph has an edge A->B of
\* weight n >= 1 iff the files of A hold exactly n dependency tokens for which B is
\* the first service in iteration order, other than A, that has an identifier
\* occurring in the token; there is no edge A->B when there is no such token.
C4_EdgeIffFirstMatch ==
    Built =>
        \A A, B \in Range(services.keys) :
            A # B =>
                LET n == Cardinality(TokenPairs(A, LAMBDA t : IsFirstMatch(t, A, B)))
                IN  /\ n >= 1 => (HasEdge(G, A, B) /\ G.eattr[<<A, B>>]["weight"] = n)
                    /\ n = 0 => ~HasEdge(G, A, B)

\* a built graph with an edge of weight 2 from A to B, where a token of A that holds
\* an identifier of a third service as well went to B
C4_Witness ==
    /\ Built
    /\ \E A, B, C \in Range(services.keys) :
          /\ A # B /\ B # C /\ A # C
          /\ HasEdge(G, A, B) /\ G.eattr[<<A, B>>]["weight"] = 2
          /\ TokenPairs(A, LAMBDA t : IsFirstMatch(t, A, B) /\ Matches(t, C)) # {}

\* the value of a float that is the quotient of two integers equals that of another
RatioEq(a, b) == a.num * b.den = b.num * a.den

\* C5: after enrichment of a graph with at least one edge every edge carries
\* normalized_weight = weight / (largest weight of the graph), every such value is
\* in (0, 1] and the largest of them is exactly 1.0. (A graph with no edge has no
\* edge to carry the attribute.)
C5_NormalizedWeight ==
    (Built /\ EdgeSet(G) # {}) =>
        LET top == CHOOSE w \in {G.eattr[e]["weight"] : e \in EdgeSet(G)} :
                       \A e \in EdgeSet(G) : G.eattr[e]["weight"] <= w
        IN  /\ \A e \in EdgeSet(G) :
                  /\ "normalized_weight" \in DOMAIN G.eattr[e]
                  /\ RatioEq(G.eattr[e]["normalized_weight"], Ratio(G.eattr[e]["weight"], top))
                  /\ G.eattr[e]["normalized_weight"].den > 0
                  /\ G.eattr[e]["normalized_weight"].num > 0
                  /\ G.eattr[e]["normalized_weight"].num <= G.eattr[e]["normalized_weight"].den
            /\ \E e \in EdgeSet(G) : RatioEq(G.eattr[e]["normalized_weight"], Ratio(1, 1))

\* an enriched graph with two edges of different weights
C5_Witness ==
    /\ Built
    /\ \E e, f \in EdgeSet(G) :
          /\ G.eattr[e]["weight"] < G.eattr[f]["weight"]
          /\ ~RatioEq(G.eattr[e]["normalized_weight"], Ratio(1, 1))

\* C6: enrich_graph_with_metrics changes no node and no edge: after one pass and
\* after a second pass the nodes, the edges and their weights are those of the graph
\* before enrichment.
C6_EnrichmentKeepsStructure ==
    Built =>
        /\ G.nodes = G0.nodes
        /\ NodeSet(G) = NodeSet(G0)
        /\ EdgeSet(G) = EdgeSet(G0)
        /\ G.adj = G0.adj
        /\ \A e \in EdgeSet(G0) : G.eattr[e]["weight"] = G0.eattr[e]["weight"]

\* a graph with an edge and a node without edge after the second enrichment pass
C6_Witness ==
    /\ pc = "reenriched"
    /\ EdgeSet(G) # {}
    /\ \E n \in NodeSet(G) : \A e \in EdgeSet(G) : e[1] # n /\ e[2] # n


\* C7: every service that some changed file resolves to as an origin (a resolved
\* service that is a node of the graph) appears in the impacted list.
C7_OriginsAreImpacted ==
    Done => \A s \in Resolved : HasNode(G, s) => s \in Range(impacted)

\* a run with two resolved origins, one of which no edge of the graph leads to
C7_Witness ==
    /\ Done
    /\ Cardinality(Resolved) >= 2
    /\ \E s \in Resolved : HasNode(G, s) /\ \A e \in EdgeSet(G) : e[2] # s
    /\ EdgeSet(G) # {}

\* C8 as claimed: whenever the service map contains at least one service the
\* impacted list is non-empty, for every changed-file list and every graph.
C8_NonEmptyForEveryGraph ==
    (Done /\ services.keys # <<>>) => impacted # <<>>

\* C8 (amended): whenever the service map contains at least one service and every
\* service of the map is a node of the graph passed (as in the graph built from
\* that map), the impacted list is non-empty, for every changed-file list.
C8_NonEmptyWhenServicesAreNodes ==
    (Done /\ services.keys # <<>> /\ Range(services.keys) \subseteq NodeSet(G))
        => impacted # <<>>

\* a run whose changed files resolve to no service, on a graph that holds every
\* service of a map of two services: the first service is the origin
C8_Witness ==
    /\ Done
    /\ changed_files # <<>>
    /\ Resolved = {}
    /\ Len(services.keys) = 2
    /\ Range(services.keys) \subseteq NodeSet(G)
    /\ services.keys[1] \in Range(impacted)

\* C9: for a single origin the traversed edges are in breadth-first discovery order:
\* every listed edge is an edge of the graph that leads from a node at distance d
\* from the origin to a node at distance d + 1, an edge that discovers a node at
\* distance d precedes every edge that discovers a node at distance d + 1, and each
\* listed edge carries the attributes the edge has in the graph. For the edges
\* A->B (weight 2), B->C (weight 1) and origin A the list is [(A,B,2), (B,C,1)]
\* (A, B, C are svc-c, ui-a, ui-b).
C9_BreadthFirstOrder ==
    (Done /\ Cardinality(Origins) = 1) =>
        LET o == CHOOSE x \in Origins : TRUE
        IN  /\ \A i \in 1..Len(edges) :
                  /\ HasEdge(G, edges[i].from, edges[i].to)
                  /\ edges[i].attr = G.eattr[<<edges[i].from, edges[i].to>>]
                  /\ DOMAIN edges[i].attr = {"weight", "normalized_weight"}
                  /\ Dist(G, o, edges[i].to) = Dist(G, o, edges[i].from) + 1
            /\ \A i, j \in 1..Len(edges) :
                  i < j => Dist(G, o, edges[i].to) <= Dist(G, o, edges[j].to)
            /\ (o = svc_c /\ EdgeSet(G) = {<<svc_c, ui_a>>, <<ui_a, ui_b>>}) =>
                  /\ Len(edges) = 2
                  /\ edges[1].from = svc_c /\ edges[1].to = ui_a
                  /\ edges[1].attr["weight"] = 2
                  /\ edges[2].from = ui_a /\ edges[2].to = ui_b
                  /\ edges[2].attr["weight"] = 1
                  /\ impacted = <<svc_c, ui_a, ui_b>>

\* the run of the scenario: edges svc-c->ui-a (weight 2) and ui-a->ui-b (weight 1),
\* origin svc-c
C9_Witness ==
    /\ Done
    /\ Origins = {svc_c}
    /\ EdgeSet(G) = {<<svc_c, ui_a>>, <<ui_a, ui_b>>}
    /\ Len(edges) = 2

\* C10: the impacted list is in ascending lexicographic order and holds no service
\* twice, whatever the number of origins and of origins that reach the same service.
C10_SortedNoDuplicates ==
    Done => \A i, j \in 1..Len(impacted) : i < j => StrLess(impacted[i], impacted[j])

\* a run with two origins that both reach a third service
C10_Witness ==
    /\ Done
    /\ Len(impacted) = 3
    /\ \E o1, o2 \in Origins, n \in NodeSet(G) :
          /\ o1 # o2 /\ n # o1 /\ n # o2
          /\ HasEdge(G, o1, n) /\ HasEdge(G, o2, n)

----------------------------------------------------------------------------
(* C11..C20 *)

\* the working directories a process of the model can run in
WorkingDirs == {env[1] : env \in Environments}

\* C11: an analysis run is a function of the directory contents and the
\* changed-file list only: a second run on the same files, service map, graph and
\* changed-file list returns the impacted list and the traversed-edge list (same
\* edges, same order) of the first, whatever its working directory and the order in
\* which it visits the origins.
C11_RunIsFunctionOfInputs ==
    Done =>
        \A wd \in WorkingDirs :
            \A r \in impacted_services_from_files(disk, wd, changed_files, services.keys, G) :
                r.impacted = impacted /\ r.edges = edges

\* the files of the process as a run finds them when it runs alone: without the
\* summary that a run writes
DiskAlone == [q \in DOMAIN disk \ {SummaryPath(cwd)} |-> disk[q]]

\* C12: when the steps of two runs on a read-only directory tree interleave, each
\* run has the service map, the graph and the impact result that it can have when
\* it runs alone: no step of one run reads a value that the other run wrote.
C12_RunsDoNotInterfere ==
    /\ pc \notin {"setup"} => services = discover_microservices(repo)
    /\ pc \in {"scanned", "built", "done", "reported"} =>
          svc_graph \in build_service_dependency_graph(repo, cwd, services)
    /\ pc \in {"built", "done", "reported"} => G = build_knowledge_graph(svc_graph, failing)
    /\ pc \in {"done", "reported"} =>
          [impacted |-> impacted, edges |-> edges] \in
              impacted_services_from_files(DiskAlone, cwd, changed_files, services.keys, G)
    /\ run2.pc \notin {"setup"} => run2.services = discover_microservices(repo)
    /\ run2.pc \in {"scanned", "built", "done", "reported"} =>
          run2.svc_graph \in build_service_dependency_graph(repo, cwd, run2.services)
    /\ run2.pc \in {"built", "done", "reported"} =>
          run2.G = build_knowledge_graph(run2.svc_graph, failing)
    /\ run2.pc \in {"done", "reported"} =>
          [impacted |-> run2.impacted, edges |-> run2.edges] \in
              impacted_services_from_files(DiskAlone, cwd, run2.changed_files,
                                           run2.services.keys, run2.G)

\* C13: with an empty service set build_service_dependency_graph and
\* build_knowledge_graph yield a graph with no node and no edge, and
\* impacted_services_from_files returns an empty impacted list and an empty
\* traversed-edge list, for the changed-file list of the run and for every other one.
C13_EmptyServiceSet ==
    (services.keys = <<>> /\ pc # "setup") =>
        /\ pc \in {"scanned", "built", "done", "reported"} => svc_graph = EmptyDict
        /\ pc \in {"built", "done", "reported"} =>
              /\ G.nodes = <<>> /\ NodeSet(G) = {} /\ EdgeSet(G) = {}
              /\ \A cfs \in RunLists :
                    impacted_services_from_files(disk, cwd, cfs, services.keys, G)
                        = {[impacted |-> <<>>, edges |-> <<>>]}
        /\ pc \in {"done", "reported"} => impacted = <<>> /\ edges = <<>>

\* a finished run on a base directory that holds a directory but no service
\* directory, with two changed files
C13_Witness ==
    /\ pc = "reported"
    /\ services.keys = <<>>
    /\ DOMAIN repo # {}
    /\ Len(changed_files) = 2
    /\ impacted = <<>>

\* C14: after build_knowledge_graph on a service graph with at least one node, every
\* node carries pagerank, centrality, betweenness, scc_size and downstream_count; a
\* metric whose computation failed holds its neutral value (0.0, or 1 for scc_size)
\* on every node (downstream_count, computed node by node, holds 0 on each node whose
\* computation failed), the metrics that did not fail hold their computed values,
\* and the call returns
C14_MetricsAlwaysWritten ==
    (pc \in {"built", "reenriched"} /\ svc_graph.keys # <<>>) =>
        /\ G.nodes # <<>>
        /\ \A n \in NodeSet(G) :
              /\ {"pagerank", "centrality", "betweenness", "scc_size", "downstream_count"}
                    \subseteq DOMAIN G.nattr[n]
              /\ G.nattr[n]["pagerank"] =
                    (IF "pagerank" \in failing.metrics THEN Zero ELSE <<"pagerank", n>>)
              /\ G.nattr[n]["centrality"] =
                    (IF "centrality" \in failing.metrics THEN Zero ELSE DegreeCentrality(G0, n))
              /\ G.nattr[n]["betweenness"] =
                    (IF "betweenness" \in failing.metrics THEN Zero ELSE <<"betweenness", n>>)
              /\ G.nattr[n]["scc_size"] =
                    (IF "scc_size" \in failing.metrics THEN 1 ELSE Cardinality(SccOf(G0, n)))
              /\ G.nattr[n]["downstream_count"] =
                    (IF n \in failing.descendants THEN 0
                     ELSE Cardinality(descendants(G0, n)))

\* a cyclic graph of two services or more was enriched while nx.pagerank raised and
\* the other computations returned
C14_Witness ==
    /\ pc = "built"
    /\ failing = [metrics |-> {"pagerank"}, descendants |-> {}]
    /\ \E n \in NodeSet(G) :
          /\ G.nattr[n]["pagerank"] = Zero
          /\ G.nattr[n]["scc_size"] >= 2
          /\ G.nattr[n]["downstream_count"] >= 1

\* a directory name that is hidden (it starts with ".") or that names a package or
\* build output directory
BuildArtifactDirs ==
    {<<"n", "o", "d", "e", "_", "m", "o", "d", "u", "l", "e", "s">>, <<"_", "_", "p", "y", "c", "a", "c", "h", "e", "_", "_">>,
     <<"d", "i", "s", "t">>, <<"b", "u", "i", "l", "d">>}
HiddenOrBuildArtifact(name) ==
    (name # <<>> /\ Head(name) = ".") \/ name \in BuildArtifactDirs

\* the directories between the service directory svc and the file at path
AncestorsInside(path, svc) ==
    LET root == BaseDir \o <<"/">> \o svc \o <<"/">>
        parts == SplitOn(SubSeq(path, Len(root) + 1, Len(path)), {"/"}, <<>>)
    IN  {parts[i] : i \in 1..(Len(parts) - 1)}

\* C15: no file path discover_microservices collected for a service has a hidden or
\* build-artifact directory among its ancestors inside the service
C15_NoHiddenOrBuildArtifactAncestor ==
    pc # "setup" =>
        \A svc \in Range(services.keys) : \A i \in 1..Len(services.files[svc]) :
            \A d \in AncestorsInside(services.files[svc][i], svc) : ~HiddenOrBuildArtifact(d)

\* the tree in which every file that cannot be read or decoded has empty content
WithEmptyContent(r) ==
    [d \in DOMAIN r |->
        [r[d] EXCEPT !.files =
            [i \in 1..Len(@) |->
                IF @[i].readable /\ @[i].decodable THEN @[i]
                ELSE [@[i] EXCEPT !.deps = {}, !.readable = TRUE, !.decodable = TRUE]]]]

\* C16: build_service_dependency_graph returns, for a tree with a file that cannot be
\* read or decoded, a result it can return for the tree in which that file has
\* empty content
C16_UnreadableFileIsEmpty ==
    pc \in {"scanned", "built"} =>
        svc_graph \in build_service_dependency_graph(WithEmptyContent(repo), cwd, services)

\* the descriptor files of the two kinds, and those a parser returns a summary for:
\* an API description that opens, loads and does not hold a list as its paths; a
\* .proto file that opens and has no rpc line before its first service line
IsApiDescriptor(d) == IsApiDescriptorName(Lower(d.name))
IsProtoDescriptor(d) == ~IsApiDescriptor(d) /\ EndsWith(Lower(d.name), <<".", "p", "r", "o", "t", "o">>)
ApiParses(d) ==
    d.readable /\ d.loads # "none" /\ ~(d.data.isdict /\ d.data.paths.kind = "list")
ProtoParses(d) ==
    /\ d.readable
    /\ \A i \in 1..Len(d.lines) :
          d.lines[i].kind = "rpc" => \E j \in 1..(i - 1) : d.lines[j].kind = "service"

\* C17: the contracts of a service hold, under "openapi", one entry for each JSON or
\* YAML file under its root whose name contains openapi or swagger and that parses,
\* and under "proto" one entry for each .proto file that parses, in the order met
\* and under no other key; an entry holds the file's path inside the root and the
\* summary parsed, whose "paths" map every declared path to the list of the keys
\* found under it; a root without such a file has the empty mapping
C17_OneEntryPerParsedDescriptor ==
    (pc \in {"scanned", "built"} /\ cwd = BaseDir) =>
        \A svc \in Range(svc_graph.keys) :
            LET c == svc_graph.val[svc].contracts
                descs == repo[svc].contracts
                ApiTest(d) == IsApiDescriptor(d) /\ ApiParses(d)
                ProtoTest(d) == IsProtoDescriptor(d) /\ ProtoParses(d)
                api == SelectSeq(descs, ApiTest)
                proto == SelectSeq(descs, ProtoTest)
                openapi_entries == IF "openapi" \in Range(c.keys) THEN c.val["openapi"] ELSE <<>>
                proto_entries == IF "proto" \in Range(c.keys) THEN c.val["proto"] ELSE <<>>
            IN  /\ Range(c.keys) \subseteq {"openapi", "proto"}
                /\ \A k \in Range(c.keys) : c.val[k] # <<>>
                /\ Len(openapi_entries) = Len(api)
                /\ \A i \in 1..Len(api) :
                      /\ openapi_entries[i].path = RelPath(api[i])
                      /\ LET paths == openapi_entries[i].contract.val["paths"]
                             declared == IF api[i].data.isdict /\ api[i].data.paths.kind = "dict"
                                         THEN api[i].data.paths
                                         ELSE EmptyDict
                         IN  /\ paths.keys = declared.keys
                             /\ \A p \in Range(declared.keys) :
                                   paths.val[p] = declared.val[p].keys
                /\ Len(proto_entries) = Len(proto)
                /\ \A i \in 1..Len(proto) :
                      /\ proto_entries[i].path = RelPath(proto[i])
                      /\ proto_entries[i].contract = parse_proto_file(proto[i])
                /\ (api = <<>> /\ proto = <<>>) => c = EmptyDict

\* svc-c was scanned with two API descriptions that parse, among them the one with
\* the path /items and the method get, a .proto file that parses and a file that
\* does not
C17_Witness ==
    /\ pc = "scanned"
    /\ cwd = BaseDir
    /\ svc_c \in Range(svc_graph.keys)
    /\ Len(repo[svc_c].contracts) = 6
    /\ LET c == svc_graph.val[svc_c].contracts
       IN  /\ c.keys = <<"openapi", "proto">>
           /\ Len(c.val["openapi"]) = 2
           /\ Len(c.val["proto"]) = 1
           /\ c.val["openapi"][1].path = <<"o", "p", "e", "n", "a", "p", "i", ".", "j", "s", "o", "n">>
           /\ c.val["openapi"][1].contract.val["paths"]
                 = [keys |-> <<"/items">>, val |-> ("/items" :> <<"get">>)]

\* the changed file cf lies under the directory of the service svc of the base
\* directory (a relative path is taken from the base directory)
LiesUnder(cf, svc) ==
    LET full == IF IsAbs(cf) THEN cf ELSE PathJoin(BaseDir, cf)
    IN  StartsWith(full, BaseDir \o <<"/">> \o svc \o <<"/">>)

\* the name of svc occurs in the part p of the analysis text
OccursInPart(svc, p) ==
    CASE p.part = "llm" -> Contains(p.text, svc)
      [] p.part = "deterministic" ->
            \/ Contains(p.impacted_display, svc)
            \/ Contains(p.changed_display, svc)
            \/ \E i \in 1..Len(p.sections) : p.sections[i].svc = svc
      [] OTHER -> FALSE

\* the name of svc occurs in the report rep of a run with changed files: in a table
\* row or in the analysis text
AppearsIn(svc, rep) ==
    \/ \E i \in 1..Len(rep[2].impacted_table) : rep[2].impacted_table[i] = ImpactedRow(svc)
    \/ \E i \in 1..Len(rep[2].inner_ai_output) : OccursInPart(svc, rep[2].inner_ai_output[i])

\* C18: the report of a run with at least one changed file has one table row for
\* each impacted service, and every service with a changed file under its directory
\* appears in the report
C18_ReportNamesImpactedServices ==
    (pc = "reported" /\ changed_files # <<>>) =>
        /\ report # NoReport
        /\ impacted # <<>> =>
              /\ Len(report[2].impacted_table) = Len(impacted)
              /\ \A i \in 1..Len(impacted) :
                    report[2].impacted_table[i] = ImpactedRow(impacted[i])
        /\ \A i \in 1..Len(changed_files) : \A svc \in Range(services.keys) :
              LiesUnder(changed_files[i], svc) => AppearsIn(svc, report)

\* the model client is configured and its call returned a text that is not blank
LlmAnswered == llm.client /\ llm.outcome = "text" /\ ~IsBlank(llm.content)

RECURSIVE DepsTotal(_, _)
DepsTotal(d, i) ==
    IF i > Len(d.keys) THEN 0 ELSE d.val[d.keys[i]] + DepsTotal(d, i + 1)

\* C20: in the result of build_service_dependency_graph, the counts of the edges
\* out of a service A add up to the number of (file, token) pairs of A whose token
\* holds an identifier of another service (each such token incremented one edge by
\* one), and the count of A -> B is the number of those pairs for which B is the
\* first such service in iteration order: a service that matches a token after an
\* earlier match has no increment for it
C20_OneIncrementPerToken ==
    pc \in {"scanned", "built", "reenriched"} =>
        \A A \in Range(services.keys) :
            LET deps == svc_graph.val[A].deps
                MatchesOther(t) == \E B \in Range(services.keys) \ {A} : Matches(t, B)
            IN  /\ A \notin Range(deps.keys)
                /\ DepsTotal(deps, 1) = Cardinality(TokenPairs(A, MatchesOther))
                /\ \A B \in Range(services.keys) \ {A} :
                      LET FirstIsB(t) == IsFirstMatch(t, A, B)
                          n == Cardinality(TokenPairs(A, FirstIsB))
                      IN  IF n = 0 THEN B \notin Range(deps.keys)
                          ELSE B \in Range(deps.keys) /\ deps.val[B] = n

\* the scan of a service met a token that holds identifiers of two other services:
\* the first of them has the count 1 and the later one has no count
C20_Witness ==
    /\ pc = "scanned"
    /\ \E A, B, C \in Range(services.keys) :
          LET deps == svc_graph.val[A].deps
              BothMatch(t) == IsFirstMatch(t, A, B) /\ Matches(t, C)
          IN  /\ A # B /\ B # C /\ A # C
              /\ TokenPairs(A, BothMatch) # {}
              /\ deps.keys = <<B>>
              /\ deps.val[B] = 1

----------------------------------------------------------------------------
(* C21..C30 *)

\* the nodes of g that a directed path leads to from o, o included
ReachableFrom(g, o) == {n \in NodeSet(g) : PathExists(g, o, n)}

\* C21 as claimed: when no changed file resolves to a service and the map holds a
\* service, the first service of the map is the only origin and the impacted list
\* is that service together with every node reachable from it
C21_FallbackImpactsFirstService ==
    (Done /\ Resolved = {} /\ services.keys # <<>>) =>
        /\ StartServices(disk, cwd, changed_files, services.keys) = {services.keys[1]}
        /\ Range(impacted) = {services.keys[1]} \cup ReachableFrom(G, services.keys[1])

\* C21 (amended): when no changed file resolves to a service and the map holds a
\* service, the first service of the map is the only origin; when it is a node of
\* the graph the impacted list is that service together with every node reachable
\* from it and every traversed edge starts at an impacted service, and when it is
\* no node of the graph the impacted list and the edge list are empty
C21_FallbackImpactsFirstServiceInGraph ==
    (Done /\ Resolved = {} /\ services.keys # <<>>) =>
        LET first == services.keys[1]
        IN  /\ StartServices(disk, cwd, changed_files, services.keys) = {first}
            /\ HasNode(G, first) =>
                  /\ Range(impacted) = ReachableFrom(G, first)
                  /\ first \in Range(impacted)
                  /\ \A i \in 1..Len(edges) : edges[i].from \in ReachableFrom(G, first)
            /\ ~HasNode(G, first) => impacted = <<>> /\ edges = <<>>

\* a run with an empty changed-file list on a map of two services or more: the first
\* service and a node it reaches are impacted, the last service is not
C21_Witness ==
    /\ Done
    /\ changed_files = <<>>
    /\ Len(services.keys) >= 2
    /\ services.keys[1] \in Range(impacted)
    /\ Len(impacted) >= 2
    /\ HasNode(G, services.keys[Len(services.keys)])
    /\ services.keys[Len(services.keys)] \notin Range(impacted)

\* C22: a changed file that maps to a service which is no node of the graph
\* contributes no origin: the run returns a result that impacted_services_from_files
\* can return for the changed-file list without the files that map to such a
\* service (a list in which they resolve to no service at all)
C22_AbsentServiceIsNoOrigin ==
    Done =>
        LET MapsToNodeOrNone(cf) ==
                \/ ResolvedService[<<cwd, disk>>, cf, services.keys] = NoService
                \/ HasNode(G, ResolvedService[<<cwd, disk>>, cf, services.keys])
            kept == SelectSeq(changed_files, MapsToNodeOrNone)
        IN  [impacted |-> impacted, edges |-> edges]
                \in impacted_services_from_files(disk, cwd, kept, services.keys, G)

\* the breadth-first edge sequences of the origins of order, one after the other
RECURSIVE ConcatBfs(_, _)
ConcatBfs(g, order) ==
    IF order = <<>> THEN <<>>
    ELSE bfs_edges(g, Head(order)) \o ConcatBfs(g, Tail(order))

\* C23: with several origins the edge list is the concatenation, in some order of
\* the origins, of the breadth-first edge sequence of each origin, nothing removed:
\* an edge appears once for every origin whose traversal crosses it
C23_EdgesConcatenatedPerOrigin ==
    Done =>
        /\ \E order \in Perms(Origins) :
              [i \in 1..Len(edges) |-> <<edges[i].from, edges[i].to>>] = ConcatBfs(G, order)
        /\ \A u, v \in NodeSet(G) :
              Cardinality({i \in 1..Len(edges) : edges[i].from = u /\ edges[i].to = v})
                  = Cardinality({o \in Origins : <<u, v>> \in Range(bfs_edges(G, o))})

\* a run with two origins whose traversals cross the same edge: the edge list holds
\* that edge twice
C23_Witness ==
    /\ Done
    /\ Cardinality(Origins) >= 2
    /\ \E i, j \in 1..Len(edges) :
          i < j /\ edges[i].from = edges[j].from /\ edges[i].to = edges[j].to

\* the file a changed-file path names, as the operating system resolves it from the
\* working directory, and what can be read from it
ContentOf(cf) == read_file_content(disk, IF IsAbs(cf) THEN cf ELSE PathJoin(cwd, cf))

\* C24: the changed file of the run resolves by strict priority. When its
\* normalized path begins with the directory prefix of a service, the origin is the
\* service with the longest such prefix; when no prefix matches and a part of the
\* path equals a service name, the origin is such a service; when neither matches
\* and the content of the file holds a service name as a whole word, the origin is
\* such a service (the graph holds every service and no edge: the impacted list is
\* the origin)
C24_ResolutionPriority ==
    (Done /\ Len(changed_files) = 1) =>
        LET keys == Range(services.keys)
            rel == RelativePath(cwd, changed_files[1])
            byPrefix == {svc \in keys : StartsWith(rel, svc \o <<"/">>)}
            byPart == {svc \in keys : svc \in PathParts(rel)}
            byWord == {svc \in keys : WordSearch(svc, ContentOf(changed_files[1]))}
        IN  /\ byPrefix # {} =>
                  \E svc \in byPrefix :
                      /\ \A other \in byPrefix : Len(other) <= Len(svc)
                      /\ impacted = <<svc>>
            /\ (byPrefix = {} /\ byPart # {}) =>
                  \E svc \in byPart : impacted = <<svc>>
            /\ (byPrefix = {} /\ byPart = {} /\ byWord # {}) =>
                  \E svc \in byWord : impacted = <<svc>>

\* a run whose changed file lies under the directory of one service and has, as a
\* later part, the name of a service that comes first in the map: the service of the
\* directory prefix is the origin
C24_Witness ==
    /\ Done
    /\ Len(changed_files) = 1
    /\ Len(services.keys) >= 2
    /\ services.keys[1] \in PathParts(RelativePath(cwd, changed_files[1]))
    /\ ~StartsWith(RelativePath(cwd, changed_files[1]), services.keys[1] \o <<"/">>)
    /\ StartsWith(RelativePath(cwd, changed_files[1]), services.keys[2] \o <<"/">>)
    /\ impacted = <<services.keys[2]>>

\* C27: the changed file of the run resolves to the same origin service, or to none,
\* whether its path is written with forward slashes or with backslashes
C27_SeparatorIndependent ==
    (Done /\ Len(changed_files) = 1) =>
        LET forward == ReplaceBackslash(changed_files[1])
        IN  ResolveOrigin(disk, cwd, forward, services.keys)
                = ResolveOrigin(disk, cwd, WithBackslashes(forward), services.keys)

\* C25: once the graph is built, the node of every discovered service has as
\* file_count the number of source files collected for the service, and carries the
\* contracts of the service whenever the service has any
C25_ServiceNodeAttributes ==
    Built =>
        \A i \in 1..Len(services.keys) :
            LET S == services.keys[i]
            IN  /\ HasNode(G, S)
                /\ G.nattr[S]["file_count"] = Len(services.files[S])
                /\ svc_graph.val[S].contracts # EmptyDict =>
                      /\ "contracts" \in DOMAIN G.nattr[S]
                      /\ G.nattr[S]["contracts"] = svc_graph.val[S].contracts

\* C26: the downstream_count of every node n is the number of nodes other than n
\* that a directed path leads to from n, and, in a run whose only origin is n, the
\* length of the impacted list minus one; on graphs with cycles too
C26_DownstreamCount ==
    Done =>
        /\ \A n \in NodeSet(G) :
              G.nattr[n]["downstream_count"] = Cardinality(ReachableFrom(G, n) \ {n})
        /\ \A n \in NodeSet(G) :
              Origins = {n} => G.nattr[n]["downstream_count"] = Len(impacted) - 1

\* a run whose only origin lies on a cycle and reaches every other node
C26_Witness ==
    /\ Done
    /\ \E n \in NodeSet(G) :
          /\ Origins = {n}
          /\ \E m \in NodeSet(G) \ {n} : PathExists(G, n, m) /\ PathExists(G, m, n)
          /\ G.nattr[n]["downstream_count"] = 2
          /\ Len(impacted) = 3

\* the changed-file lists left when files are taken out of the list of the run
SubLists == Subsequences(changed_files)

\* C28: for every part F1 of the changed files of the run in which some file
\* resolves to a service, the origins of F1 are origins of the run and every service
\* impacted by F1 is impacted by the run
C28_MonotoneInChangedFiles ==
    Done =>
        \A F1 \in SubLists :
            (\E i \in 1..Len(F1) :
                 ResolvedService[<<cwd, disk>>, F1[i], services.keys] # NoService) =>
                /\ StartServices(disk, cwd, F1, services.keys)
                       \subseteq StartServices(disk, cwd, changed_files, services.keys)
                /\ \A r \in impacted_services_from_files(disk, cwd, F1, services.keys, G) :
                       Range(r.impacted) \subseteq Range(impacted)

\* a run on two changed files that resolve to two services of the graph, the second
\* not reachable from the first: the first file alone impacts strictly less
C28_Witness ==
    /\ Done
    /\ Len(changed_files) = 2
    /\ LET s1 == ResolvedService[<<cwd, disk>>, changed_files[1], services.keys]
           s2 == ResolvedService[<<cwd, disk>>, changed_files[2], services.keys]
       IN  /\ s1 # NoService /\ s2 # NoService /\ s1 # s2
           /\ HasNode(G, s1) /\ HasNode(G, s2)
           /\ ~PathExists(G, s1, s2)
           /\ {s1, s2} \subseteq Range(impacted)

\* C29: in a run with a single origin o the traversed edges form a tree rooted at o:
\* every impacted service other than o is the 'to' of exactly one edge and o of none,
\* the 'from' of every edge is o or the 'to' of an earlier edge, every edge is an
\* edge of the graph, and there is one edge less than there are impacted services
C29_EdgesFormTree ==
    (Done /\ Cardinality(Origins) = 1) =>
        LET o == CHOOSE x \in Origins : TRUE
        IN  /\ \A n \in Range(impacted) \ {o} :
                  Cardinality({i \in 1..Len(edges) : edges[i].to = n}) = 1
            /\ \A i \in 1..Len(edges) :
                  /\ edges[i].to # o
                  /\ edges[i].to \in Range(impacted)
                  /\ edges[i].from = o \/ \E j \in 1..(i - 1) : edges[j].to = edges[i].from
                  /\ HasEdge(G, edges[i].from, edges[i].to)
            /\ Len(edges) = Len(impacted) - 1

\* a run with a single origin that reaches two services along a path, in a graph
\* where the last of them has an edge back to the origin
C29_Witness ==
    /\ Done
    /\ Cardinality(Origins) = 1
    /\ Len(edges) = 2
    /\ edges[2].from = edges[1].to
    /\ \E o \in Origins : edges[1].from = o /\ HasEdge(G, edges[2].to, o)

\* the number of times each element of q occurs in q
Occurrences(q) == [x \in Range(q) |-> Cardinality({i \in 1..Len(q) : q[i] = x})]

\* C30: the result depends only on the set of changed files: every list of the same
\* files, in any order and with any repetition, gives the impacted list of the run
\* and the edges of the run, each as many times
C30_DependsOnSetOfChangedFiles ==
    Done =>
        \A other \in ChangedLists :
            Range(other) = Range(changed_files) =>
                \A r \in impacted_services_from_files(disk, cwd, other, services.keys, G) :
                    /\ r.impacted = impacted
                    /\ Occurrences(r.edges) = Occurrences(edges)

\* a run on a list that names the same file twice, a file of an origin with an
\* outgoing edge
C30_Witness ==
    /\ Done
    /\ Len(changed_files) = 2
    /\ changed_files[1] = changed_files[2]
    /\ ResolvedService[<<cwd, disk>>, changed_files[1], services.keys] \in Origins
    /\ Len(edges) >= 1

====
